---- MODULE Spec2Model ----
(***************************************************************************)
(* Verification model of GESTOR_WS_COLEGIOS.                               *)
(*                                                                         *)
(*   ERP service        erp_mock/app/{crud,main,database,webhooks}.py      *)
(*   Hierarchical agent gestor_ws/app/agents/agente_autonomo.py            *)
(*   Code planner       gestor_ws/app/agents/code_planner.py               *)
(*                                                                         *)
(* Each subsystem has its own specification over the shared variables; the *)
(* variables of the other subsystems stay at their initial value.          *)
(***************************************************************************)
EXTENDS Integers, Sequences, FiniteSets, TLC

(***************************************************************************)
(* Bounds of the model.                                                    *)
(***************************************************************************)
\* HTTP requests POST /api/v1/pagos/confirmar handled in one behaviour
MaxReqs == 2
\* largest max_retries a WebhookClient is constructed with
MaxRetriesArg == 4
\* largest base_delay (seconds) a WebhookClient is constructed with
MaxBaseDelayArg == 2
\* longest step list of a MasterPlan
MaxSteps == 2
\* webhook requests and reminder calls the orchestrator handles in one behaviour
MaxOps == 2
MaxTasks == 2
MaxRecords == 2
MaxLen == 3
MaxActions == 2
MaxPosts == 2
MaxTickets == 2

\* SQL NULL of a nullable TIMESTAMP column, and "no HTTP status yet"
NULL == 0
\* Python None where the value is otherwise a string
None == "None"

VARIABLES
    cuotas,     \* erp_cuotas, committed rows: id -> [estado, fecha_pago]
    pagos,      \* erp_pagos, committed rows: set of [id, cuota_id, fecha_pago]
    req,        \* confirmar_pago requests: r -> [pc, cuota_id, status]
    bgTasks,    \* BackgroundTasks enqueued by confirmar_pago, in order
    wh,         \* one WebhookClient and its _send_with_retry call
    ag,         \* AgentState of one AgenteAutonomo run, and the node to run next
    cp,         \* CodePlannerState of one CodePlannerAgent run, and the node to run next
    gw,         \* orchestrator: cache_cuotas, notificaciones_enviadas, requests and tasks
    hs,         \* one GET /webhook/whatsapp request and its response
    mcp,        \* ToolRegistry._tools, MCPServer.use_mock and the last tool call
    tk,         \* TokenTracker, the _current_session of each context, the tasks
    lu,         \* one GET /api/v1/responsables/by-whatsapp request over erp_responsables
    sp,         \* SpecialistState of one specialist subgraph run
    cf,         \* calls of confirm_payment: c -> [pc, via, posts, outcome, result]
    ti,         \* tickets: the rows of the table and the last admin request
    rt          \* one message given to MessageRouter.route and its route

erpVars == <<cuotas, pagos, req, bgTasks>>
vars == <<cuotas, pagos, req, bgTasks, wh, ag, cp, gw, hs, mcp, tk, lu, sp, cf, ti, rt>>

(***************************************************************************)
(* ERP service: data model (erp_mock/app/models.py, schemas.py)            *)
(***************************************************************************)
PENDIENTE == "pendiente"
PAGADA == "pagada"
VENCIDA == "vencida"
EstadoCuota == {PENDIENTE, PAGADA, VENCIDA}

Reqs == 1..MaxReqs
\* the erp_cuotas rows of the database, by primary key
CuotaIds == {"C-A001-03", "C-A006-01"}
\* an id that is not the primary key of any erp_cuotas row
CUOTA_NO_EXISTE == "CUOTA_NO_EXISTE"
\* datetime.utcnow() of request r is modelled by the token r; the seed script
\* stamps paid installments with a fixed date, token MaxReqs + 1
Timestamps == 1..(MaxReqs + 1)
SeedFecha == MaxReqs + 1

\* scripts/seed.py generar_cuotas_alumno: paid rows carry fecha_pago,
\* pending and overdue rows carry None
SeedCuota(estado) ==
    [estado |-> estado, fecha_pago |-> IF estado = PAGADA THEN SeedFecha ELSE NULL]

\* scripts/seed.py seed_pagos: one Pago per installment seeded as paid
SeedPagos(cs) ==
    {[id |-> <<"seed", c>>, cuota_id |-> c, fecha_pago |-> cs[c].fecha_pago] :
        c \in {d \in CuotaIds : cs[d].estado = PAGADA}}

ErpInit ==
    /\ \E est \in [CuotaIds -> EstadoCuota] :
           /\ cuotas = [c \in CuotaIds |-> SeedCuota(est[c])]
           /\ pagos = SeedPagos([c \in CuotaIds |-> SeedCuota(est[c])])
    /\ req = [r \in Reqs |-> [pc |-> "idle", cuota_id |-> None, status |-> NULL]]
    /\ bgTasks = <<>>

\* the database and requests, at rest, in the specifications of other subsystems
ErpIdle ==
    /\ cuotas = [c \in CuotaIds |-> SeedCuota(PENDIENTE)]
    /\ pagos = {}
    /\ req = [r \in Reqs |-> [pc |-> "idle", cuota_id |-> None, status |-> NULL]]
    /\ bgTasks = <<>>

(***************************************************************************)
(* ERP service: crud.crear_pago and main.confirmar_pago                    *)
(*                                                                         *)
(* Every request runs in its own AsyncSession (database.get_db): a         *)
(* transaction that commits after the endpoint returns and rolls back on   *)
(* an exception.  The awaits of the handler are its suspension points:     *)
(* the SELECT of get_cuota_by_id, the flush (INSERT erp_pagos, UPDATE      *)
(* erp_cuotas) and the commit.                                             *)
(***************************************************************************)
\* crud.get_cuota_by_id: scalar_one_or_none() over the committed rows
ExisteCuota(cid) == cid \in DOMAIN cuotas

\* crud.crear_pago: "if cuota.estado == EstadoCuota.PAGADA.value"
YaPagada_NoCheck(c) == FALSE
YaPagada(c) == c.estado = PAGADA

\* the UPDATE of erp_cuotas takes the row lock until the transaction ends:
\* a request that has flushed and not yet committed holds it
RowLocked(cid) == \E r \in Reqs : req[r].pc = "commit" /\ req[r].cuota_id = cid

\* the request arrives: FastAPI validates the body and opens the session
Recibir(r, cid) ==
    /\ req[r].pc = "idle"
    /\ req' = [req EXCEPT ![r] = [pc |-> "select", cuota_id |-> cid, status |-> NULL]]
    /\ UNCHANGED <<cuotas, pagos, bgTasks, wh, ag, cp, gw, hs, mcp, tk, lu, sp, cf, ti, rt>>

\* crud.crear_pago, its three returns: (None, None) when the row is missing,
\* (None, cuota) when it is already paid, (pago, cuota) otherwise
crear_pago_result(cid) ==
    IF ~ExisteCuota(cid) THEN "None,None"
    ELSE IF YaPagada(cuotas[cid]) THEN "None,cuota"
    ELSE "pago,cuota"

\* main.confirmar_pago: "if not cuota" -> 404, then "if not pago" -> 400
confirmar_pago_status_PagoFirst(res) ==
    IF res \in {"None,None", "None,cuota"} THEN 400 ELSE 200
confirmar_pago_status_AfterDelivery(res) ==
    IF res = "None,None" THEN 404
    ELSE IF res = "None,cuota" THEN 400
    ELSE NULL
confirmar_pago_status(res) ==
    IF res = "None,None" THEN 404
    ELSE IF res = "None,cuota" THEN 400
    ELSE 200

\* crear_pago up to its first write: the SELECT and the two early returns;
\* an HTTPException ends the request (get_db rolls back an empty transaction)
CrearPagoSelect(r) ==
    /\ req[r].pc = "select"
    /\ LET res == crear_pago_result(req[r].cuota_id) IN
       IF res = "pago,cuota"
       THEN req' = [req EXCEPT ![r].pc = "flush"]
       ELSE req' = [req EXCEPT ![r].pc = "done", ![r].status = confirmar_pago_status(res)]
    /\ UNCHANGED <<cuotas, pagos, bgTasks, wh, ag, cp, gw, hs, mcp, tk, lu, sp, cf, ti, rt>>

\* the task main.confirmar_pago hands to background_tasks.add_task
NotifyTask(r, cid) == [req |-> r, cuota_id |-> cid, fecha_pago |-> r]
AddTask_Twice(tasks, r, cid) == Append(Append(tasks, NotifyTask(r, cid)), NotifyTask(r, cid))
AddTask(tasks, r, cid) == Append(tasks, NotifyTask(r, cid))

\* db.add(nuevo_pago); cuota.estado = PAGADA; cuota.fecha_pago = now;
\* await db.flush(); back in confirmar_pago: add_task and the 200 response
CrearPagoFlush(r) ==
    /\ req[r].pc = "flush"
    /\ ~RowLocked(req[r].cuota_id)
    /\ req' = [req EXCEPT ![r].pc = "commit",
                           ![r].status = confirmar_pago_status("pago,cuota")]
    /\ bgTasks' = AddTask(bgTasks, r, req[r].cuota_id)
    /\ UNCHANGED <<cuotas, pagos, wh, ag, cp, gw, hs, mcp, tk, lu, sp, cf, ti, rt>>

\* the rows the transaction of request r writes
NuevoPago(r, cid) == [id |-> <<"req", r>>, cuota_id |-> cid, fecha_pago |-> r]
CuotaPagada(c, fecha) == [c EXCEPT !.estado = PAGADA, !.fecha_pago = fecha]

\* database.get_db: "await session.commit()" after the endpoint returned
Commit(r) ==
    /\ req[r].pc = "commit"
    /\ LET cid == req[r].cuota_id IN
       /\ pagos' = pagos \cup {NuevoPago(r, cid)}
       /\ cuotas' = [cuotas EXCEPT ![cid] = CuotaPagada(cuotas[cid], r)]
    /\ req' = [req EXCEPT ![r].pc = "done"]
    /\ UNCHANGED <<bgTasks, wh, ag, cp, gw, hs, mcp, tk, lu, sp, cf, ti, rt>>

\* the background task at position i of bgTasks is running or has run
TaskStarted(i) == i <= Len(wh.log) \/ wh.task = i

\* database.get_db: "await session.commit()" raises, "except Exception:
\* await session.rollback(); raise".  Where the commit runs before the
\* response is produced, the request ends in a 500 and its background task
\* is never run; where it runs once the response and its background tasks
\* are through, the 200 and the task's delivery have already happened.
CommitFalla(r) ==
    /\ req[r].pc = "commit"
    /\ IF \E i \in DOMAIN bgTasks : bgTasks[i].req = r /\ TaskStarted(i)
       THEN /\ req' = [req EXCEPT ![r].pc = "rollback"]
            /\ bgTasks' = bgTasks
       ELSE /\ req' = [req EXCEPT ![r].pc = "rollback", ![r].status = 500]
            /\ bgTasks' = SelectSeq(bgTasks, LAMBDA t : t.req # r)
    /\ UNCHANGED <<cuotas, pagos, wh, ag, cp, gw, hs, mcp, tk, lu, sp, cf, ti, rt>>

(***************************************************************************)
(* ERP service: crud.actualizar_estado_cuota.  No route of main.py calls   *)
(* it; it is the crud operation through which a caller sets a state, the   *)
(* only code that can mark an installment overdue.                         *)
(***************************************************************************)
actualizar_estado_cuota(c, nuevo_estado, fecha_pago) ==
    [estado |-> nuevo_estado,
     fecha_pago |-> IF fecha_pago # NULL THEN fecha_pago ELSE c.fecha_pago]

ActualizarEstadoCuota(cid, nuevo_estado, fecha_pago) ==
    /\ ExisteCuota(cid)
    /\ ~RowLocked(cid)
    /\ cuotas' = [cuotas EXCEPT
                    ![cid] = actualizar_estado_cuota(cuotas[cid], nuevo_estado, fecha_pago)]
    /\ UNCHANGED <<pagos, req, bgTasks, wh, ag, cp, gw, hs, mcp, tk, lu, sp, cf, ti, rt>>

(***************************************************************************)
(* ERP service: webhooks.WebhookClient, the outbound webhook with retries  *)
(***************************************************************************)
\* config.Settings defaults
webhook_max_retries == 3
webhook_base_delay == 1

\* what one POST of _send_with_retry ends in: a response with a status code,
\* or one of the exceptions the loop catches
FailingOutcomes ==
    {[kind |-> "response", status |-> st] : st \in {204, 500}}
        \cup {[kind |-> k, status |-> NULL] :
                k \in {"TimeoutException", "ConnectError", "Exception"}}
Outcomes ==
    {[kind |-> "response", status |-> st] : st \in {200, 201, 202}}
        \cup FailingOutcomes

\* "if response.status_code in (200, 201, 202)"
Delivered_Any2xx(o) == o.kind = "response" /\ o.status \in 200..299
Delivered(o) == o.kind = "response" /\ o.status \in {200, 201, 202}

\* the except clauses of the loop body: httpx.TimeoutException,
\* httpx.ConnectError, and Exception for everything else
Caught_NoGeneric(kind) == kind \in {"TimeoutException", "ConnectError"}
Caught(kind) == kind \in {"TimeoutException", "ConnectError", "Exception"}

\* WebhookClient.__init__: "max_retries or settings.webhook_max_retries",
\* "base_delay or settings.webhook_base_delay" (None and 0 are both falsy)
OrDefault(arg, default) == IF arg # NULL THEN arg ELSE default

WebhookClient(max_retries, base_delay) ==
    [arg_max_retries |-> max_retries,
     max_retries |-> OrDefault(max_retries, webhook_max_retries),
     base_delay |-> OrDefault(base_delay, webhook_base_delay),
     pc |-> "idle",
     attempt |-> 0,
     outcomes |-> <<>>,     \* the outcome of every POST made, in order
     sleeps |-> <<>>,       \* the argument of every asyncio.sleep, in order
     result |-> "None",     \* what _send_with_retry returned
     error_log |-> NULL,    \* N of the final "Webhook fallo despues de N intentos"
     task |-> NULL,         \* index in bgTasks of the task this call runs for
     log |-> <<>>]          \* the background tasks that have returned, in order

\* the client that delivers nothing in the specifications of other subsystems
WhIdle == wh = WebhookClient(NULL, NULL)

WhInit ==
    \E n \in 0..MaxRetriesArg, d \in 0..MaxBaseDelayArg : wh = WebhookClient(n, d)

\* "for attempt in range(self.max_retries)"
InRange_OneMore(attempt, max_retries) == attempt <= max_retries
InRange(attempt, max_retries) == attempt < max_retries

\* "if attempt < self.max_retries - 1"
SleepsAfter(attempt, max_retries) == attempt < max_retries - 1

\* "delay = self.base_delay * (2 ** attempt)"
Delay_NoBackoff(base_delay, attempt) == base_delay
Delay(base_delay, attempt) == base_delay * (2 ^ attempt)

\* the loop header: the next iteration, or the code after the loop
\* (logger.error "fallo despues de {max_retries} intentos"; return False)
LoopNext(w, attempt) ==
    IF InRange(attempt, w.max_retries)
    THEN [w EXCEPT !.attempt = attempt, !.pc = "post"]
    ELSE [w EXCEPT !.attempt = attempt, !.pc = "done",
                   !.result = "False", !.error_log = w.max_retries]

\* _send_with_retry is called
WhSend ==
    /\ wh.pc = "idle"
    /\ wh' = LoopNext(wh, 0)
    /\ UNCHANGED <<erpVars, ag, cp, gw, hs, mcp, tk, lu, sp, cf, ti, rt>>

\* one "await client.post(...)" and what follows it up to the next await
WhPost(o) ==
    /\ wh.pc = "post"
    /\ LET w == [wh EXCEPT !.outcomes = Append(@, o)] IN
       IF Delivered(o)
       THEN wh' = [w EXCEPT !.pc = "done", !.result = "True"]
       ELSE IF o.kind # "response" /\ ~Caught(o.kind)
       THEN wh' = [w EXCEPT !.pc = "raised", !.result = "raised"]
       ELSE IF SleepsAfter(wh.attempt, wh.max_retries)
       THEN wh' = [w EXCEPT !.pc = "sleep"]
       ELSE wh' = LoopNext(w, wh.attempt + 1)
    /\ UNCHANGED <<erpVars, ag, cp, gw, hs, mcp, tk, lu, sp, cf, ti, rt>>

\* "await asyncio.sleep(delay)" returns
WhSleep ==
    /\ wh.pc = "sleep"
    /\ wh' = LoopNext([wh EXCEPT !.sleeps = Append(@, Delay(wh.base_delay, wh.attempt))],
                      wh.attempt + 1)
    /\ UNCHANGED <<erpVars, ag, cp, gw, hs, mcp, tk, lu, sp, cf, ti, rt>>

(***************************************************************************)
(* ERP service: the background task of confirmar_pago.  Starlette runs the *)
(* tasks of a response once the response has been produced; every task is  *)
(* notify_pago_confirmado on the global webhook_client.  The calls share   *)
(* no state (attempt is a local of _send_with_retry), so they are run one  *)
(* after the other, in the order they were enqueued, each interleaved      *)
(* with the requests still being handled.                                  *)
(***************************************************************************)
\* the status codes and exceptions the orchestrator's endpoint is given here
NotifyOutcomes ==
    {[kind |-> "response", status |-> 200],
     [kind |-> "response", status |-> 500],
     [kind |-> "ConnectError", status |-> NULL]}

\* what is kept of a call of notify_pago_confirmado that has returned
NotifyRecord(w) ==
    [task |-> w.task,
     posts |-> Len(w.outcomes),
     first_ok |-> w.outcomes # <<>> /\ Delivered(w.outcomes[1]),
     result |-> w.result]

\* notify_pago_confirmado -> webhook_client.enviar_pago_confirmado ->
\* _send_with_retry, for the oldest task not yet run
NotifyStart ==
    /\ wh.pc = "idle"
    /\ Len(wh.log) < Len(bgTasks)
    /\ wh' = LoopNext([wh EXCEPT !.task = Len(wh.log) + 1], 0)
    /\ UNCHANGED <<erpVars, ag, cp, gw, hs, mcp, tk, lu, sp, cf, ti, rt>>

\* _send_with_retry returns to notify_pago_confirmado, and that to Starlette
NotifyReturn ==
    /\ wh.pc \in {"done", "raised"}
    /\ wh.task # NULL
    /\ wh' = [WebhookClient(NULL, NULL) EXCEPT !.log = Append(wh.log, NotifyRecord(wh))]
    /\ UNCHANGED <<erpVars, ag, cp, gw, hs, mcp, tk, lu, sp, cf, ti, rt>>

(***************************************************************************)
(* Hierarchical agent: agents/agente_autonomo.py, agents/states.py         *)
(*                                                                         *)
(* One run of the graph cargar_contexto -> manager -> ejecutar_especialista*)
(* -> evaluar -> ... -> sintetizar -> END.  A node and the router on its   *)
(* outgoing edge are one step; what the LLM and the specialists return is  *)
(* the step's input.                                                       *)
(***************************************************************************)
\* states.create_empty_agent_state: max_replans=3
max_replans == 3

SALUDO == "saludo"
\* the intents the routers tell apart: saludo and any other
Intents == {SALUDO, "consulta_financiera"}
\* the names a plan step can carry: keys of self.especialistas, or anything else
Especialistas == {"financiero", "administrativo", "institucional"}
StepNames == Especialistas \cup {"desconocido"}

SeqsUpTo(S, n) == UNION {[1..k -> S] : k \in 0..n}

NoPlan == [present |-> FALSE, intent |-> None, steps |-> <<>>]
\* the MasterPlan the manager builds from the model's JSON
MasterPlans ==
    {[present |-> TRUE, intent |-> i, steps |-> st] :
        i \in Intents, st \in SeqsUpTo(StepNames, MaxSteps)}
\* the manager's LLM call and JSON parse: a plan, or an exception
ManagerOutputs == MasterPlans \cup {NoPlan}

\* states.create_empty_agent_state, entering the graph at cargar_contexto
create_empty_agent_state ==
    [pc |-> "cargar_contexto",
     user_context |-> None,
     master_plan |-> NoPlan,
     current_step_index |-> 0,
     specialist_reports |-> <<>>,
     needs_replan |-> FALSE,
     replan_count |-> 0,
     max_replans |-> max_replans,
     final_response |-> None,
     error |-> FALSE,
     returned |-> None,         \* what procesar() returns
     manager_calls |-> 0]       \* executions of _nodo_manager in this run

\* no run, in the specifications of other subsystems
AgIdle == ag = [create_empty_agent_state EXCEPT !.pc = "END"]
AgInit == ag = create_empty_agent_state

\* _nodo_cargar_contexto: the context, or None when the lookup finds nothing
\* or fails; stepping on to manager either way
NodoCargarContexto(ctx) ==
    /\ ag.pc = "cargar_contexto"
    /\ ag' = [ag EXCEPT !.user_context = ctx, !.pc = "manager"]
    /\ UNCHANGED <<erpVars, wh, cp, gw, hs, mcp, tk, lu, sp, cf, ti, rt>>

\* a router that sends a plan without steps on to the specialists
router_post_manager_EmptyExecutes(st) ==
    IF st.error THEN "error"
    ELSE IF ~st.master_plan.present THEN "error"
    ELSE IF st.master_plan.intent = SALUDO
    THEN "sintetizar"
    ELSE "ejecutar"

\* _router_post_manager
router_post_manager(st) ==
    IF st.error THEN "error"
    ELSE IF ~st.master_plan.present THEN "error"
    ELSE IF st.master_plan.intent = SALUDO \/ st.master_plan.steps = <<>>
    THEN "sintetizar"
    ELSE "ejecutar"

\* _build_graph: the conditional edges out of manager
ManagerEdges(label) ==
    IF label = "ejecutar" THEN "ejecutar_especialista" ELSE "sintetizar"

\* _nodo_manager
nodo_manager(st, out) ==
    IF out.present
    THEN IF st.replan_count = 0
         THEN [st EXCEPT !.master_plan = out,
                         !.current_step_index = 0,
                         !.specialist_reports = <<>>]
         ELSE [st EXCEPT !.master_plan = out]
    ELSE [st EXCEPT !.error = TRUE, !.master_plan = NoPlan]

NodoManager(out) ==
    /\ ag.pc = "manager"
    /\ LET st == [nodo_manager(ag, out) EXCEPT !.manager_calls = @ + 1] IN
       ag' = [st EXCEPT !.pc = ManagerEdges(router_post_manager(st))]
    /\ UNCHANGED <<erpVars, wh, cp, gw, hs, mcp, tk, lu, sp, cf, ti, rt>>

\* the report of especialista.run, whose requires_replan is "not all_success";
\* a step naming no known specialist gets the failure report
SpecialistReport(name, success) ==
    IF name \in Especialistas
    THEN [specialist |-> name, success |-> success, requires_replan |-> ~success]
    ELSE [specialist |-> name, success |-> FALSE, requires_replan |-> TRUE]

\* _nodo_ejecutar_especialista
nodo_ejecutar_especialista(st, success) ==
    IF ~st.master_plan.present \/ st.master_plan.steps = <<>>
    THEN [st EXCEPT !.error = TRUE]
    ELSE IF st.current_step_index >= Len(st.master_plan.steps)
    THEN st
    ELSE [st EXCEPT
            !.specialist_reports =
                Append(@, SpecialistReport(
                              st.master_plan.steps[st.current_step_index + 1], success)),
            !.current_step_index = @ + 1]

NodoEjecutarEspecialista(success) ==
    /\ ag.pc = "ejecutar_especialista"
    /\ ag' = [nodo_ejecutar_especialista(ag, success) EXCEPT !.pc = "evaluar"]
    /\ UNCHANGED <<erpVars, wh, cp, gw, hs, mcp, tk, lu, sp, cf, ti, rt>>

\* _nodo_evaluar: "if replan_count < state.get('max_replans', MAX_REPLANS)"
MayReplan_Always(st) == TRUE
MayReplan(st) == st.replan_count < st.max_replans

nodo_evaluar(st) ==
    IF st.specialist_reports = <<>>
    THEN st
    ELSE IF st.specialist_reports[Len(st.specialist_reports)].requires_replan
    THEN IF MayReplan(st)
         THEN [st EXCEPT !.needs_replan = TRUE, !.replan_count = @ + 1]
         ELSE [st EXCEPT !.needs_replan = FALSE]
    ELSE [st EXCEPT !.needs_replan = FALSE]

\* _router_post_evaluar
router_post_evaluar(st) ==
    IF st.needs_replan THEN "replan"
    ELSE IF /\ st.master_plan.present
            /\ st.master_plan.steps # <<>>
            /\ st.current_step_index < Len(st.master_plan.steps)
    THEN "continuar"
    ELSE "sintetizar"

\* _build_graph: the conditional edges out of evaluar
EvaluarEdges(label) ==
    IF label = "continuar" THEN "ejecutar_especialista"
    ELSE IF label = "replan" THEN "manager"
    ELSE "sintetizar"

NodoEvaluar ==
    /\ ag.pc = "evaluar"
    /\ LET st == nodo_evaluar(ag) IN
       ag' = [st EXCEPT !.pc = EvaluarEdges(router_post_evaluar(st))]
    /\ UNCHANGED <<erpVars, wh, cp, gw, hs, mcp, tk, lu, sp, cf, ti, rt>>

\* what the synthesis LLM call ends in
SynthOutcomes == {"text", "empty", "exception"}

\* _nodo_sintetizar: which of its branches writes final_response
nodo_sintetizar(st, llm) ==
    IF st.error /\ ~st.master_plan.present THEN "disculpa"
    ELSE IF st.master_plan.present /\ st.master_plan.intent = SALUDO THEN "saludo"
    ELSE IF st.specialist_reports = <<>> THEN "sin_reportes"
    ELSE IF Len(st.specialist_reports) = 1 /\ st.specialist_reports[1].success
    THEN "summary"
    ELSE IF llm = "text" THEN "sintesis_llm"
    ELSE IF llm = "empty" THEN ""
    ELSE IF \E i \in DOMAIN st.specialist_reports : st.specialist_reports[i].success
    THEN "summary"
    ELSE "fallback"

\* a procesar() that hands the state's final_response over as it is
procesar_return_Raw(final_response) == final_response

\* procesar(): the final_response of the graph's result, or the fallback
\* text when it is missing or empty
procesar_return(final_response) ==
    IF final_response \notin {None, ""} THEN "final_response" ELSE "fallback_text"

\* _nodo_sintetizar, the edge sintetizar -> END and procesar() returning
NodoSintetizar(llm) ==
    /\ ag.pc = "sintetizar"
    /\ ag' = [ag EXCEPT !.final_response = nodo_sintetizar(ag, llm),
                        !.returned = procesar_return(nodo_sintetizar(ag, llm)),
                        !.pc = "END"]
    /\ UNCHANGED <<erpVars, wh, cp, gw, hs, mcp, tk, lu, sp, cf, ti, rt>>

(***************************************************************************)
(* Code planner: agents/code_planner.py, agents/states.py                  *)
(*                                                                         *)
(* One run of process(): the graph planner -> executor -> (reflector |     *)
(* self_correction) -> ... -> responder -> END.  A node and the router on  *)
(* its outgoing edge are one step.  The graph looks a router's label up in *)
(* the edge map given to add_conditional_edges; a label that is no key of  *)
(* the map raises KeyError out of graph.ainvoke, which process() catches.  *)
(***************************************************************************)
MAX_CORRECTIONS == 3
MAX_PLANNER_ITERATIONS == 5

\* states.create_empty_code_planner_state, entering the graph at planner
create_empty_code_planner_state ==
    [pc |-> "planner",
     generated_code |-> "",
     execution_result |-> None,
     execution_error |-> FALSE,
     correction_count |-> 0,
     max_corrections |-> MAX_CORRECTIONS,
     planner_iterations |-> 0,
     reflection_valid |-> FALSE,
     final_response |-> None,
     error |-> FALSE,
     raised |-> FALSE,          \* graph.ainvoke raised
     returned |-> None,         \* what process() returns
     gen_calls |-> 0,           \* calls of llm_planner.ainvoke in this run
     round_execs |-> 0,         \* executor runs since the start or the last
                                \* reflector -> planner edge
     reflections |-> 0,         \* executions of _nodo_reflector
     valid_seen |-> FALSE]      \* some reflection set reflection_valid

\* no run, in the specifications of other subsystems
CpIdle == cp = [create_empty_code_planner_state EXCEPT !.pc = "END"]
CpInit == cp = create_empty_code_planner_state

\* process(): the text returned once the graph has ended or raised
process_return(st) ==
    IF st.raised THEN "exception_text"
    ELSE IF st.final_response \notin {None, ""} THEN "final_response"
    ELSE "fallback_text"

\* an exception out of graph.ainvoke ends the run in process()'s except
Raise(st) ==
    LET r == [st EXCEPT !.raised = TRUE, !.pc = "END"] IN
    [r EXCEPT !.returned = process_return(r)]

\* the graph following a conditional edge: self.ends[label]
FollowEdge(st, edges, label) ==
    IF label \in DOMAIN edges THEN [st EXCEPT !.pc = edges[label]] ELSE Raise(st)

\* what the planner's LLM call gives after _clean_code_response
PlannerOutcomes == {"code", "empty", "exception"}

\* _nodo_planner: "if planner_iterations > MAX_PLANNER_ITERATIONS"
OverLimit_Never(n) == FALSE
OverLimit(n) == n > MAX_PLANNER_ITERATIONS

\* _nodo_planner
nodo_planner(st, llm) ==
    LET s1 == [st EXCEPT !.planner_iterations = @ + 1] IN
    IF OverLimit(s1.planner_iterations)
    THEN [s1 EXCEPT !.generated_code = "fallback_limit"]
    ELSE LET s2 == [s1 EXCEPT !.gen_calls = @ + 1] IN
         IF llm = "code" THEN [s2 EXCEPT !.generated_code = "llm"]
         ELSE IF llm = "empty" THEN [s2 EXCEPT !.generated_code = ""]
         ELSE [s2 EXCEPT !.error = TRUE, !.generated_code = "fallback_error"]

NodoPlanner(llm) ==
    /\ cp.pc = "planner"
    /\ cp' = [nodo_planner(cp, llm) EXCEPT !.pc = "executor"]
    /\ UNCHANGED <<erpVars, wh, ag, gw, hs, mcp, tk, lu, sp, cf, ti, rt>>

\* _execute_code: how running a piece of code can end.  The two fallback
\* codes return a constant dict; code written by the model returns a dict
\* with success true or false, or raises or times out.
ExecOutcomes(code) ==
    IF code = "llm" THEN {"success_true", "success_false", "raise"}
    ELSE IF code = "fallback_limit" THEN {"success_true"}
    ELSE {"success_false"}

\* _nodo_executor
nodo_executor(st, outcome) ==
    IF st.generated_code = "" \/ outcome = "raise"
    THEN [st EXCEPT !.execution_error = TRUE, !.correction_count = @ + 1]
    ELSE [st EXCEPT !.execution_result = outcome, !.execution_error = FALSE]

\* _router_post_executor
router_post_executor(st) ==
    IF st.execution_error
    THEN IF st.correction_count >= st.max_corrections THEN "responder" ELSE "error"
    ELSE "success"

\* _build_graph: the conditional edges out of executor
ExecutorEdges ==
    [success |-> "reflector", error |-> "self_correction", max_errors |-> "responder"]

NodoExecutor(outcome) ==
    /\ cp.pc = "executor"
    /\ cp.generated_code # "" => outcome \in ExecOutcomes(cp.generated_code)
    /\ LET st == [nodo_executor(cp, outcome) EXCEPT !.round_execs = @ + 1] IN
       cp' = FollowEdge(st, ExecutorEdges, router_post_executor(st))
    /\ UNCHANGED <<erpVars, wh, ag, gw, hs, mcp, tk, lu, sp, cf, ti, rt>>

\* _nodo_self_correction, and the edge self_correction -> planner
NodoSelfCorrection ==
    /\ cp.pc = "self_correction"
    /\ cp' = [cp EXCEPT !.pc = "planner"]
    /\ UNCHANGED <<erpVars, wh, ag, gw, hs, mcp, tk, lu, sp, cf, ti, rt>>

\* what the reflector's LLM call and JSON parse give
ReflectorOutcomes == {"valid", "invalid", "exception"}

\* _nodo_reflector; result.get on a result of None raises
nodo_reflector(st, llm) ==
    IF st.execution_result = None THEN Raise(st)
    ELSE IF st.execution_result # "success_true"
    THEN [st EXCEPT !.reflection_valid = FALSE]
    ELSE IF llm = "invalid" THEN [st EXCEPT !.reflection_valid = FALSE]
    ELSE [st EXCEPT !.reflection_valid = TRUE]

\* _router_post_reflector
router_post_reflector(st) ==
    IF st.reflection_valid THEN "valid"
    ELSE IF st.planner_iterations >= MAX_PLANNER_ITERATIONS THEN "valid"
    ELSE IF st.correction_count >= 2 THEN "valid"
    ELSE "invalid"

\* _build_graph: the conditional edges out of reflector
ReflectorEdges == [valid |-> "responder", invalid |-> "planner"]

NodoReflector(llm) ==
    /\ cp.pc = "reflector"
    /\ LET s1 == nodo_reflector(cp, llm) IN
       IF s1.raised THEN cp' = s1
       ELSE LET s2 == [s1 EXCEPT !.reflections = @ + 1,
                                 !.valid_seen = @ \/ s1.reflection_valid]
                s3 == FollowEdge(s2, ReflectorEdges, router_post_reflector(s2))
            IN cp' = IF s3.pc = "planner" THEN [s3 EXCEPT !.round_execs = 0] ELSE s3
    /\ UNCHANGED <<erpVars, wh, ag, gw, hs, mcp, tk, lu, sp, cf, ti, rt>>

\* what the responder's LLM call gives after strip()
ResponderOutcomes == {"text", "empty", "exception"}

\* _nodo_responder: which of its branches writes final_response
nodo_responder(st, llm) ==
    IF st.execution_error /\ st.correction_count >= st.max_corrections
    THEN [st EXCEPT !.final_response = "disculpa"]
    ELSE IF st.execution_result = None THEN Raise(st)
    ELSE IF st.execution_result = "success_true"
    THEN IF llm = "text" THEN [st EXCEPT !.final_response = "llm_text"]
         ELSE IF llm = "empty" THEN [st EXCEPT !.final_response = ""]
         ELSE [st EXCEPT !.final_response = "summary"]
    ELSE [st EXCEPT !.final_response = "no_info"]

\* _nodo_responder, the edge responder -> END and process() returning
NodoResponder(llm) ==
    /\ cp.pc = "responder"
    /\ LET s1 == nodo_responder(cp, llm) IN
       IF s1.raised THEN cp' = s1
       ELSE LET s2 == [s1 EXCEPT !.pc = "END"] IN
            cp' = [s2 EXCEPT !.returned = process_return(s2)]
    /\ UNCHANGED <<erpVars, wh, ag, gw, hs, mcp, tk, lu, sp, cf, ti, rt>>

(***************************************************************************)
(* Orchestrator: api/webhooks_erp.py, services/sync_service.py,            *)
(* services/notification_service.py                                        *)
(*                                                                         *)
(* The mirror table cache_cuotas (erp_cuota_id unique), the table          *)
(* notificaciones_enviadas (no unique constraint besides its uuid key),    *)
(* and the operations that write them: the payment-confirmed webhook with  *)
(* its background confirmation, and the payment reminder.  Every database  *)
(* access opens its own session and commits before returning.              *)
(***************************************************************************)
Ops == 1..MaxOps

CONFIRMACION_PAGO == "confirmacion_pago"
\* the reminders of procesar_recordatorios_pendientes: 7, 3 and 1 days before
DiasAntes == {7, 3, 1}
\* f"recordatorio_d{dias_antes}"
TipoRecordatorio(dias) ==
    IF dias = 7 THEN "recordatorio_d7"
    ELSE IF dias = 3 THEN "recordatorio_d3"
    ELSE "recordatorio_d1"
TiposNotificacion == {TipoRecordatorio(d) : d \in DiasAntes} \cup {CONFIRMACION_PAGO}

OpIdle == [kind |-> None, pc |-> "idle", cuota_id |-> None, tipo |-> None, status |-> NULL]

\* the orchestrator over a mirror holding the rows of cache
Gestor(cache) ==
    [cache |-> cache,       \* cache_cuotas: erp_cuota_id -> estado, None where no row
     notificaciones |-> [k \in CuotaIds \X TiposNotificacion |-> 0],
                            \* notificaciones_enviadas: rows per (erp_cuota_id, tipo)
     ops |-> [p \in Ops |-> OpIdle]]

GwIdle == gw = Gestor([c \in CuotaIds |-> None])
\* the mirror holds some of the installments, synced as pending
GwInit == \E cache \in [CuotaIds -> {None, PENDIENTE}] : gw = Gestor(cache)

\* SyncService.actualizar_estado_cuota: "if cuota:" update and commit,
\* otherwise return None
sync_actualizar_estado_cuota(cache, erp_cuota_id, estado) ==
    IF cache[erp_cuota_id] # None
    THEN [cache EXCEPT ![erp_cuota_id] = estado]
    ELSE cache

\* webhook_pago_confirmado up to its response.  db_ok: the mirror update did
\* not raise; alumno_id: event.datos.get("alumno_id")
WebhookPagoConfirmado(p, cuota_id, alumno_id, db_ok) ==
    /\ gw.ops[p].pc = "idle"
    /\ LET op == [OpIdle EXCEPT !.kind = "pago_confirmado", !.cuota_id = cuota_id,
                                !.tipo = CONFIRMACION_PAGO] IN
       IF cuota_id = None
       THEN gw' = [gw EXCEPT !.ops[p] = [op EXCEPT !.pc = "done", !.status = 400]]
       ELSE IF ~db_ok
       THEN gw' = [gw EXCEPT !.ops[p] = [op EXCEPT !.pc = "done", !.status = 500]]
       ELSE gw' = [gw EXCEPT
                     !.cache = sync_actualizar_estado_cuota(gw.cache, cuota_id, PAGADA),
                     !.ops[p] = [op EXCEPT
                                   !.pc = IF alumno_id # None THEN "notify" ELSE "done",
                                   !.status = 200]]
    /\ UNCHANGED <<erpVars, wh, ag, cp, hs, mcp, tk, lu, sp, cf, ti, rt>>

\* SyncService.sync_cuota: the row is created, or every column of the
\* existing row is overwritten with the event's data, estado included
sync_cuota(cache, erp_cuota_id, estado) ==
    [cache EXCEPT ![erp_cuota_id] = estado]

\* webhook_cuota_generada.  estado: event.datos.get("estado"); db_ok: the
\* mirror update did not raise
WebhookCuotaGenerada(p, cuota_id, estado, db_ok) ==
    /\ gw.ops[p].pc = "idle"
    /\ LET op == [OpIdle EXCEPT !.kind = "cuota_generada", !.cuota_id = cuota_id,
                                !.pc = "done"] IN
       IF cuota_id = None
       THEN gw' = [gw EXCEPT !.ops[p] = [op EXCEPT !.status = 400]]
       ELSE IF ~db_ok
       THEN gw' = [gw EXCEPT !.ops[p] = [op EXCEPT !.status = 500]]
       ELSE gw' = [gw EXCEPT !.cache = sync_cuota(gw.cache, cuota_id, estado),
                             !.ops[p] = [op EXCEPT !.status = 200]]
    /\ UNCHANGED <<erpVars, wh, ag, cp, hs, mcp, tk, lu, sp, cf, ti, rt>>

\* how a notification attempt ends: the ERP has no such alumno, no
\* responsable has a WhatsApp number, a lookup raises, send_message reports
\* failure, the message is sent and recorded, or it is sent and
\* _registrar_envio raises
EnvioOutcomes ==
    {"sin_alumno", "sin_whatsapp", "excepcion", "no_enviado", "enviado", "registro_falla"}

\* _registrar_envio: session.add(NotificacionEnviada(...)); commit
registrar_envio(notificaciones, cuota_id, tipo) ==
    [notificaciones EXCEPT ![<<cuota_id, tipo>>] = @ + 1]

\* NotificationService.enviar_confirmacion_pago, the background task
EnviarConfirmacionPago(p, outcome) ==
    /\ gw.ops[p].pc = "notify"
    /\ gw' = [gw EXCEPT
                !.notificaciones =
                    IF outcome = "enviado"
                    THEN registrar_envio(@, gw.ops[p].cuota_id, CONFIRMACION_PAGO)
                    ELSE @,
                !.ops[p].pc = "done"]
    /\ UNCHANGED <<erpVars, wh, ag, cp, hs, mcp, tk, lu, sp, cf, ti, rt>>

\* _ya_enviada: scalar_one_or_none() is None for no row, the row for one,
\* and raises MultipleResultsFound for more
ya_enviada(notificaciones, cuota_id, tipo) ==
    IF notificaciones[<<cuota_id, tipo>>] = 0 THEN "False"
    ELSE IF notificaciones[<<cuota_id, tipo>>] = 1 THEN "True"
    ELSE "MultipleResultsFound"

\* enviar_recordatorio_vencimiento up to send_message: the ERP lookups
\* (datos_ok: cuota, alumno and a WhatsApp number were found) and _ya_enviada
RecordatorioVerificar(p, cuota_id, dias_antes, datos_ok) ==
    /\ gw.ops[p].pc = "idle"
    /\ LET tipo == TipoRecordatorio(dias_antes)
           op == [OpIdle EXCEPT !.kind = "recordatorio", !.cuota_id = cuota_id,
                                !.tipo = tipo] IN
       IF datos_ok /\ ya_enviada(gw.notificaciones, cuota_id, tipo) = "False"
       THEN gw' = [gw EXCEPT !.ops[p] = [op EXCEPT !.pc = "send"]]
       ELSE gw' = [gw EXCEPT !.ops[p] = [op EXCEPT !.pc = "done"]]
    /\ UNCHANGED <<erpVars, wh, ag, cp, hs, mcp, tk, lu, sp, cf, ti, rt>>

\* enviar_recordatorio_vencimiento from send_message on
RecordatorioEnviar(p, outcome) ==
    /\ gw.ops[p].pc = "send"
    /\ gw' = [gw EXCEPT
                !.notificaciones =
                    IF outcome = "enviado"
                    THEN registrar_envio(@, gw.ops[p].cuota_id, gw.ops[p].tipo)
                    ELSE @,
                !.ops[p].pc = "done"]
    /\ UNCHANGED <<erpVars, wh, ag, cp, hs, mcp, tk, lu, sp, cf, ti, rt>>

(***************************************************************************)
(* Orchestrator: api/webhooks_whatsapp.py, GET /webhook/whatsapp           *)
(***************************************************************************)
\* config.Settings.WHATSAPP_VERIFY_TOKEN
WHATSAPP_VERIFY_TOKEN == "mi_token_secreto"

\* the query parameters a request can carry; None: the parameter is absent
HubModes == {"subscribe", "unsubscribe", None}
HubVerifyTokens == {WHATSAPP_VERIFY_TOKEN, "invalid_token", "", None}
HubChallenges == {"12345", "-7", "abc", "", None}

\* Python's int() on the challenge strings above
ParseInt(str) ==
    IF str = "12345" THEN [ok |-> TRUE, value |-> 12345]
    ELSE IF str = "-7" THEN [ok |-> TRUE, value |-> -7]
    ELSE [ok |-> FALSE, value |-> 0]

\* the response: status code and body (<<n>> for the JSON integer n)
Respuesta(status, body) == [status |-> status, body |-> body]

\* "if hub_mode == 'subscribe' and hub_verify_token == settings.WHATSAPP_VERIFY_TOKEN"
Verified(hub_mode, hub_verify_token) ==
    hub_mode = "subscribe" /\ hub_verify_token = WHATSAPP_VERIFY_TOKEN

\* webhook_verification.  The three parameters are declared Query(alias=...)
\* without a default: FastAPI answers 422 when one is absent.  A ValueError
\* of int() is not handled and becomes a 500.
webhook_verification(hub_mode, hub_verify_token, hub_challenge) ==
    IF None \in {hub_mode, hub_verify_token, hub_challenge}
    THEN Respuesta(422, <<>>)
    ELSE IF Verified(hub_mode, hub_verify_token)
    THEN IF ParseInt(hub_challenge).ok
         THEN Respuesta(200, <<ParseInt(hub_challenge).value>>)
         ELSE Respuesta(500, <<>>)
    ELSE Respuesta(403, <<>>)

\* no request yet
HsIdle ==
    hs = [pc |-> "idle", hub_mode |-> None, hub_verify_token |-> None,
          hub_challenge |-> None, response |-> Respuesta(NULL, <<>>)]

\* a GET /webhook/whatsapp arrives
HsRecibir(hub_mode, hub_verify_token, hub_challenge) ==
    /\ hs.pc = "idle"
    /\ hs' = [hs EXCEPT !.pc = "handling", !.hub_mode = hub_mode,
                        !.hub_verify_token = hub_verify_token,
                        !.hub_challenge = hub_challenge]
    /\ UNCHANGED <<erpVars, wh, ag, cp, gw, mcp, tk, lu, sp, cf, ti, rt>>

\* the request is validated and handled
HsResponder ==
    /\ hs.pc = "handling"
    /\ hs' = [hs EXCEPT
                !.pc = "done",
                !.response = webhook_verification(hs.hub_mode, hs.hub_verify_token,
                                                  hs.hub_challenge)]
    /\ UNCHANGED <<erpVars, wh, ag, cp, gw, mcp, tk, lu, sp, cf, ti, rt>>

(***************************************************************************)
(* Tool server: mcp_tools/app/mcp/registry.py, server.py, app/main.py      *)
(***************************************************************************)
\* names under which tools get registered, and names nothing is registered under
ToolNames == {"consultar_estado_cuenta", "crear_ticket"}
CallNames == ToolNames \cup {"tool_inexistente"}

\* mock_response of a ToolDefinition: None (the default), a dict with
\* content, or the empty dict
EMPTY_DICT == "{}"
MockResponses == {None, EMPTY_DICT, "{found: True}", "{created: True}"}

\* truth value of a mock_response in "if use_mock and tool_def.mock_response"
Truthy(v) == v \notin {None, EMPTY_DICT}

NoTool == [registered |-> FALSE, mock_response |-> None]
ToolDefinition(mock_response) == [registered |-> TRUE, mock_response |-> mock_response]

\* the dict call_tool returns, and whether the handler was awaited and
\* whether an exception left call_tool
ToolResult(success, error, data, handler_invoked, raised) ==
    [success |-> success, error |-> error, data |-> data,
     handler_invoked |-> handler_invoked, raised |-> raised]

NoCall ==
    [via |-> None, name |-> None, use_mock |-> FALSE, arguments |-> None,
     result |-> ToolResult(FALSE, None, None, FALSE, FALSE)]

\* ToolRegistry.get_tool: self._tools.get(name)
get_tool(tools, name) == IF name \in DOMAIN tools THEN tools[name] ELSE NoTool

\* call_tool, "if not tool_def"
ToolNotFound_Raises(name) == ToolResult(FALSE, "no encontrada", None, FALSE, TRUE)
ToolNotFound(name) == ToolResult(FALSE, "no encontrada", None, FALSE, FALSE)

\* call_tool, "if use_mock and tool_def.mock_response"
UsesMock(use_mock, tool_def) == use_mock /\ Truthy(tool_def.mock_response)

\* how awaiting tool_def.handler(**arguments) ends: "TypeError" when the
\* arguments do not fit the handler's signature
HandlerOutcomes(arguments) ==
    IF arguments = "validos" THEN {"returns", "raises"} ELSE {"TypeError"}

\* call_tool, the try / except around the handler
HandlerResult_NoCatch(outcome) ==
    IF outcome = "returns" THEN ToolResult(TRUE, None, "handler_result", TRUE, FALSE)
    ELSE ToolResult(FALSE, None, None, TRUE, TRUE)
HandlerResult(outcome) ==
    IF outcome = "returns" THEN ToolResult(TRUE, None, "handler_result", TRUE, FALSE)
    ELSE ToolResult(FALSE, "str(e)", None, TRUE, FALSE)

\* ToolRegistry.call_tool
call_tool(tools, name, use_mock, outcome) ==
    LET tool_def == get_tool(tools, name) IN
    IF ~tool_def.registered THEN ToolNotFound(name)
    ELSE IF UsesMock(use_mock, tool_def)
    THEN ToolResult(TRUE, None, tool_def.mock_response, FALSE, FALSE)
    ELSE HandlerResult(outcome)

\* MCPServer._handle_call_tool
handle_call_tool(tools, use_mock, tool_name, outcome) ==
    IF tool_name \in {None, ""}
    THEN ToolResult(FALSE, "Tool name required", None, FALSE, FALSE)
    ELSE call_tool(tools, tool_name, use_mock, outcome)

\* the last JSON-RPC exchange: the request's method and id, whether its
\* handling raised, and the answer of MCPServer.handle_request; none yet
NoRpc == [method |-> None, id |-> None, raised |-> FALSE,
          response |-> [request_id |-> None, has_error |-> FALSE, code |-> NULL,
                        has_result |-> FALSE, result |-> None]]

\* the process of the tool server: the registry, mcp_server.use_mock (False
\* in MCPServer.__init__), settings.MOCK_MODE, whether the lifespan has
\* started the application, the last tool call and the last JSON-RPC answer
McpApp(tools, MOCK_MODE) ==
    [tools |-> tools, use_mock |-> FALSE, call |-> NoCall,
     MOCK_MODE |-> MOCK_MODE, started |-> FALSE, rpc |-> NoRpc]

\* the module registry and mcp_server after import, before any tool module;
\* settings.MOCK_MODE at its default
McpIdle == mcp = McpApp([n \in ToolNames |-> NoTool], TRUE)

\* the decorator @tool(mock_response=...): self._tools[tool_name] = tool_def
RegisterTool(name, mock_response) ==
    /\ mcp' = [mcp EXCEPT !.tools[name] = ToolDefinition(mock_response)]
    /\ UNCHANGED <<erpVars, wh, ag, cp, gw, hs, tk, lu, sp, cf, ti, rt>>

\* MCPServer.set_mock_mode
SetMockMode(enabled) ==
    /\ mcp' = [mcp EXCEPT !.use_mock = enabled]
    /\ UNCHANGED <<erpVars, wh, ag, cp, gw, hs, tk, lu, sp, cf, ti, rt>>

\* a caller awaits registry.call_tool(name, arguments, use_mock)
CallTool(name, arguments, use_mock, outcome) ==
    /\ outcome \in HandlerOutcomes(arguments)
    /\ mcp' = [mcp EXCEPT !.call =
                 [via |-> "registry", name |-> name, use_mock |-> use_mock,
                  arguments |-> arguments,
                  result |-> call_tool(mcp.tools, name, use_mock, outcome)]]
    /\ UNCHANGED <<erpVars, wh, ag, cp, gw, hs, tk, lu, sp, cf, ti, rt>>

\* a JSON-RPC request tools/call reaches MCPServer._handle_call_tool
HandleCallTool(tool_name, arguments, outcome) ==
    /\ outcome \in HandlerOutcomes(arguments)
    /\ mcp' = [mcp EXCEPT !.call =
                 [via |-> "server", name |-> tool_name, use_mock |-> mcp.use_mock,
                  arguments |-> arguments,
                  result |-> handle_call_tool(mcp.tools, mcp.use_mock, tool_name, outcome)]]
    /\ UNCHANGED <<erpVars, wh, ag, cp, gw, hs, tk, lu, sp, cf, ti, rt>>

(***************************************************************************)
(* Tool server: app/main.py, the FastAPI application                       *)
(***************************************************************************)
\* the registry after "from app.tools import ...": the tools registered
\* with their mock responses
ToolsImported ==
    [n \in ToolNames |->
        ToolDefinition(IF n = "crear_ticket" THEN "{created: True}" ELSE "{found: True}")]

\* the application after import, MOCK_MODE read from the environment
McpInit == \E mock_mode \in BOOLEAN : mcp = McpApp(ToolsImported, mock_mode)

\* the mock-mode value POST /tools/{tool_name}/call passes to call_tool
rest_use_mock(m) == m.MOCK_MODE
\* the mock-mode value _handle_call_tool passes to call_tool
jsonrpc_use_mock(m) == m.use_mock

\* lifespan: mcp_server.set_mock_mode(settings.MOCK_MODE), then requests
\* are served
Lifespan ==
    /\ ~mcp.started
    /\ mcp' = [mcp EXCEPT !.use_mock = mcp.MOCK_MODE, !.started = TRUE]
    /\ UNCHANGED <<erpVars, wh, ag, cp, gw, hs, tk, lu, sp, cf, ti, rt>>

\* POST /test/mock/{enabled}
TestSetMockMode(enabled) ==
    /\ mcp.started
    /\ SetMockMode(enabled)

\* POST /tools/{tool_name}/call
RestCallTool(tool_name, arguments, outcome) ==
    /\ mcp.started
    /\ outcome \in HandlerOutcomes(arguments)
    /\ mcp' = [mcp EXCEPT !.call =
                 [via |-> "rest", name |-> tool_name, use_mock |-> rest_use_mock(mcp),
                  arguments |-> arguments,
                  result |-> call_tool(mcp.tools, tool_name, rest_use_mock(mcp), outcome)]]
    /\ UNCHANGED <<erpVars, wh, ag, cp, gw, hs, tk, lu, sp, cf, ti, rt>>

\* JSON-RPC error codes of handle_request
METHOD_NOT_FOUND == -32601
INTERNAL_ERROR == -32603

RpcMethods == {"tools/list", "tools/call", "tools/schema", "ping"}
\* methods a request can name, "" being request.get("method", "")
RequestMethods == RpcMethods \cup {"tools/unknown", ""}
RequestIds == {None, "test-1"}

\* MCPResponse.to_dict: "if self.error" puts the error, else the result.
\* code is NULL when error is None
to_dict_Both(code, result, request_id) ==
    [request_id |-> request_id, has_error |-> code # NULL, code |-> code,
     has_result |-> TRUE, result |-> result]
to_dict(code, result, request_id) ==
    [request_id |-> request_id, has_error |-> code # NULL, code |-> code,
     has_result |-> code = NULL, result |-> IF code = NULL THEN result ELSE None]

\* the method is one of the branches of handle_request
KnownMethod(method) == method \in RpcMethods

\* MCPServer.handle_request.  raises: the method's handler raised an
\* Exception; value: what it returned otherwise
handle_request(method, request_id, raises, value) ==
    IF ~KnownMethod(method) THEN to_dict(METHOD_NOT_FOUND, None, request_id)
    ELSE IF raises THEN to_dict(INTERNAL_ERROR, None, request_id)
    ELSE to_dict(NULL, value, request_id)

\* POST /mcp: mcp_server.handle_request(request.model_dump()); a tools/call
\* goes through _handle_call_tool.  ping cannot raise
McpEndpoint(method, request_id, raises, tool_name, arguments, outcome) ==
    /\ mcp.started
    /\ outcome \in HandlerOutcomes(arguments)
    /\ method = "ping" => ~raises
    /\ LET called == method = "tools/call" /\ ~raises
           value == IF method = "ping" THEN "pong"
                    ELSE IF method = "tools/call" THEN "tool_result"
                    ELSE IF method = "tools/list" THEN "tools"
                    ELSE "schema"
       IN mcp' = [mcp EXCEPT
                    !.rpc = [method |-> method, id |-> request_id, raised |-> raises,
                             response |-> handle_request(method, request_id, raises, value)],
                    !.call = IF called
                             THEN [via |-> "jsonrpc", name |-> tool_name,
                                   use_mock |-> jsonrpc_use_mock(mcp),
                                   arguments |-> arguments,
                                   result |-> handle_call_tool(mcp.tools, jsonrpc_use_mock(mcp),
                                                               tool_name, outcome)]
                             ELSE @]
    /\ UNCHANGED <<erpVars, wh, ag, cp, gw, hs, tk, lu, sp, cf, ti, rt>>

(***************************************************************************)
(* Orchestrator: services/token_tracker.py, llm/tracked_llm.py             *)
(*                                                                         *)
(* Concurrent requests are asyncio tasks; _current_session is a ContextVar *)
(* and every task runs in its own copy of the context.  A synchronous      *)
(* invoke blocks the event loop until it returns.                          *)
(***************************************************************************)
TkTasks == 1..MaxTasks

\* what _extract_token_usage returns: nothing extractable, the provider's
\* metadata, the tokenizer fallback (prompt side zero)
Usage(prompt_tokens, completion_tokens, total_tokens) ==
    [prompt_tokens |-> prompt_tokens, completion_tokens |-> completion_tokens,
     total_tokens |-> total_tokens]
TokenUsages == {Usage(0, 0, 0), Usage(1, 1, 2), Usage(0, 2, 2)}

\* _current_session's default, None
NoSession ==
    [active |-> FALSE, query_id |-> NULL, inferences |-> <<>>,
     total_prompt_tokens |-> 0, total_completion_tokens |-> 0, total_tokens |-> 0]

\* the TokenSession start_session builds
TokenSession(query_id) ==
    [active |-> TRUE, query_id |-> query_id, inferences |-> <<>>,
     total_prompt_tokens |-> 0, total_completion_tokens |-> 0, total_tokens |-> 0]

\* a task: where it is, the wrapper method it is in, how its last call of
\* the wrapper ended, and what its last finalize_session returned
TaskIdle == [pc |-> "idle", method |-> None, last |-> None, returned |-> None]

\* the context a task's _current_session.get() and .set() act on
ContextOf_Global(task) == 1
ContextOf(task) == task

current_session(k, task) == k.current[ContextOf(task)]

\* TokenTracker.start_session
start_session(k, task, query_id) ==
    IF ~k.enabled THEN k
    ELSE [k EXCEPT !.current[ContextOf(task)] = TokenSession(query_id)]

\* record_inference, "Acumular"
Accumulate_NoCompletion(session, usage) ==
    [session EXCEPT
        !.inferences = Append(@, usage),
        !.total_prompt_tokens = @ + usage.prompt_tokens,
        !.total_tokens = @ + usage.total_tokens]
Accumulate(session, usage) ==
    [session EXCEPT
        !.inferences = Append(@, usage),
        !.total_prompt_tokens = @ + usage.prompt_tokens,
        !.total_completion_tokens = @ + usage.completion_tokens,
        !.total_tokens = @ + usage.total_tokens]

\* TokenTracker.record_inference
record_inference(k, task, usage) ==
    IF ~k.enabled THEN k
    ELSE IF ~current_session(k, task).active THEN k
    ELSE [k EXCEPT !.current[ContextOf(task)] = Accumulate(@, usage)]

\* TokenTracker.finalize_session: logs the summary, _current_session.set(None)
finalize_session(k, task) ==
    IF ~k.enabled THEN k
    ELSE IF ~current_session(k, task).active THEN k
    ELSE [k EXCEPT !.current[ContextOf(task)] = NoSession]

\* TrackedLLM.ainvoke / invoke after the base model answered
track(k, task, usage) ==
    IF usage.total_tokens > 0 THEN record_inference(k, task, usage) ELSE k

\* the singleton after import: tracking enabled, no session in any context
TkIdle ==
    tk = [enabled |-> TRUE,
          current |-> [c \in TkTasks |-> NoSession],
          tasks |-> [t \in TkTasks |-> TaskIdle]]

\* a task is inside a synchronous invoke: no other task runs
Blocked == \E u \in TkTasks : tk.tasks[u].pc = "llm" /\ tk.tasks[u].method = "invoke"

TkStartSession(t) ==
    /\ ~Blocked
    /\ tk.tasks[t].pc = "idle"
    /\ tk' = start_session(tk, t, t)
    /\ UNCHANGED <<erpVars, wh, ag, cp, gw, hs, mcp, lu, sp, cf, ti, rt>>

TkFinalizeSession(t) ==
    /\ ~Blocked
    /\ tk.tasks[t].pc = "idle"
    /\ tk' = [finalize_session(tk, t) EXCEPT
                !.tasks[t].returned =
                    IF tk.enabled /\ current_session(tk, t).active
                    THEN "TokenSession" ELSE None]
    /\ UNCHANGED <<erpVars, wh, ag, cp, gw, hs, mcp, lu, sp, cf, ti, rt>>

\* TrackedLLM.ainvoke or invoke is called: the base model is invoked
TkInvoke(t, method) ==
    /\ ~Blocked
    /\ tk.tasks[t].pc = "idle"
    /\ Len(current_session(tk, t).inferences) < MaxRecords
    /\ tk' = [tk EXCEPT !.tasks[t].pc = "llm", !.tasks[t].method = method,
                        !.tasks[t].last = None]
    /\ UNCHANGED <<erpVars, wh, ag, cp, gw, hs, mcp, lu, sp, cf, ti, rt>>

\* the base model raises: the exception leaves the wrapper
TkLlmRaises(t) ==
    /\ tk.tasks[t].pc = "llm"
    /\ tk' = [tk EXCEPT !.tasks[t].pc = "idle", !.tasks[t].last = "raised"]
    /\ UNCHANGED <<erpVars, wh, ag, cp, gw, hs, mcp, lu, sp, cf, ti, rt>>

\* the base model answers: tokens are extracted and registered
TkLlmReturns(t, usage) ==
    /\ tk.tasks[t].pc = "llm"
    /\ tk' = [track(tk, t, usage) EXCEPT !.tasks[t].pc = "idle",
                                         !.tasks[t].last = "response"]
    /\ UNCHANGED <<erpVars, wh, ag, cp, gw, hs, mcp, lu, sp, cf, ti, rt>>

\* TokenTracker.enable / disable
TkSetEnabled(enabled) ==
    /\ ~Blocked
    /\ tk' = [tk EXCEPT !.enabled = enabled]
    /\ UNCHANGED <<erpVars, wh, ag, cp, gw, hs, mcp, lu, sp, cf, ti, rt>>

(***************************************************************************)
(* ERP service: crud.get_responsable_by_whatsapp and its endpoint          *)
(*                                                                         *)
(* A handle is a string, modelled as the sequence of its characters.       *)
(***************************************************************************)
\* a sign, a digit and the two characters the lookup strips
HandleChars == {"+", "5", " ", "-"}
\* the path parameter {whatsapp}: not empty
Handles == SeqsUpTo(HandleChars, MaxLen) \ {<<>>}

\* str.replace(old, ""): every occurrence of the character is removed
RECURSIVE Remove_FirstOnly(_, _)
Remove_FirstOnly(str, old) ==
    IF str = <<>> THEN <<>>
    ELSE IF Head(str) = old THEN Tail(str)
    ELSE <<Head(str)>> \o Remove_FirstOnly(Tail(str), old)
RECURSIVE Remove(_, _)
Remove(str, old) ==
    IF str = <<>> THEN <<>>
    ELSE IF Head(str) = old THEN Remove(Tail(str), old)
    ELSE <<Head(str)>> \o Remove(Tail(str), old)

\* whatsapp.replace(" ", "").replace("-", "")
normalizar(whatsapp) == Remove(Remove(whatsapp, " "), "-")

\* the whatsapp column (unique) of rows erp_responsables may hold; nothing
\* normalizes the column when a row is written
StoredHandles == {<<"+", "5">>, <<"5", "5">>, <<"+", "5", "5">>, <<"+", "-", "5">>}

\* crud.get_responsable_by_whatsapp: the row whose whatsapp equals the
\* normalized number, <<>> for None
get_responsable_by_whatsapp(responsables, whatsapp) ==
    IF normalizar(whatsapp) \in responsables THEN <<normalizar(whatsapp)>> ELSE <<>>

\* the endpoint: the row, or 404
responsable_response(responsables, whatsapp) ==
    LET responsable == get_responsable_by_whatsapp(responsables, whatsapp) IN
    IF responsable = <<>> THEN [status |-> 404, body |-> <<>>]
    ELSE [status |-> 200, body |-> responsable]

Lookup(responsables) ==
    [pc |-> "idle", responsables |-> responsables, whatsapp |-> <<>>,
     response |-> [status |-> NULL, body |-> <<>>]]

\* no request, the seeded table
LuIdle == lu = Lookup(StoredHandles)
\* no request, over any content of the table
LuInit == \E responsables \in SUBSET StoredHandles : lu = Lookup(responsables)

\* GET /api/v1/responsables/by-whatsapp/{whatsapp} arrives
LuRecibir(whatsapp) ==
    /\ lu.pc = "idle"
    /\ lu' = [lu EXCEPT !.pc = "handling", !.whatsapp = whatsapp]
    /\ UNCHANGED <<erpVars, wh, ag, cp, gw, hs, mcp, tk, sp, cf, ti, rt>>

LuResponder ==
    /\ lu.pc = "handling"
    /\ lu' = [lu EXCEPT !.pc = "done",
                        !.response = responsable_response(lu.responsables, lu.whatsapp)]
    /\ UNCHANGED <<erpVars, wh, ag, cp, gw, hs, mcp, tk, sp, cf, ti, rt>>

(***************************************************************************)
(* Specialists: agents/specialists/financiero.py, administrativo.py        *)
(*                                                                         *)
(* One run of a specialist subgraph planificar -> ejecutar_accion (once    *)
(* per action) -> generar_reporte -> END.  What the upstream service (ERP  *)
(* or database) does during a tool call is the step's input.               *)
(***************************************************************************)
FinancieroTools ==
    {"consultar_estado_cuenta", "obtener_link_pago", "registrar_confirmacion_pago"}
\* of the administrativo's tools, the one that writes to the database
AdministrativoTools == {"crear_ticket"}
KnownTools(specialist) ==
    IF specialist = "financiero" THEN FinancieroTools ELSE AdministrativoTools
\* the tool names a sub-plan can carry: the specialist's, or anything else
PlanTools(specialist) == KnownTools(specialist) \cup {"desconocida"}
AllPlanTools == PlanTools("financiero") \cup PlanTools("administrativo")

\* the upstream service during a tool call: it answers, it is unavailable,
\* or it answers the first request and is unavailable for a later one
Upstreams == {"disponible", "no_disponible", "cae_durante"}

NoReport == [present |-> FALSE, success |-> FALSE, has_data |-> FALSE,
             error |-> None, requires_replan |-> FALSE]

\* params.get("categoria") of the step the manager hands over: absent, or a
\* category the manager named
ParamsCategorias == {None, "plan_pago"}
\* how the try block of _planificar ends: json.loads gave a plan, the model
\* call raised, or its output was no JSON
PlanOutcomes == {"plan", "llm_error", "json_error"}

\* SpecialistState as run() builds it, entering the subgraph at planificar.
\* actions holds the tool of each action of the sub-plan, categorias the
\* params["categoria"] of each; planned is how the plan node ended.
SpecialistState(specialist, MOCK_MODE, categoria) ==
    [pc |-> "planificar", specialist |-> specialist, MOCK_MODE |-> MOCK_MODE,
     params |-> [categoria |-> categoria], planned |-> None,
     actions |-> <<>>, categorias |-> <<>>,
     current_action_index |-> 0, action_results |-> <<>>,
     report |-> NoReport, error |-> None]

SpIdle == sp = [SpecialistState("financiero", TRUE, None) EXCEPT !.pc = "END"]
SpInit ==
    \E specialist \in {"financiero", "administrativo"}, mock_mode \in BOOLEAN,
       categoria \in ParamsCategorias :
        sp = SpecialistState(specialist, mock_mode, categoria)

\* a fallback that always files the ticket under consulta_admin
default_categoria_Fixed(params) == "consulta_admin"

\* _planificar (administrativo), except: params.get("categoria", "consulta_admin")
default_categoria(params) ==
    IF params.categoria # None THEN params.categoria ELSE "consulta_admin"

\* _planificar: the sub-plan of the model's JSON, or on any exception of
\* the try block the default plan of one action
planificar(st, outcome, actions) ==
    IF outcome = "plan"
    THEN [st EXCEPT !.actions = actions,
                    !.categorias = [i \in DOMAIN actions |-> None],
                    !.planned = outcome,
                    !.current_action_index = 0]
    ELSE IF st.specialist = "financiero"
    THEN [st EXCEPT !.actions = <<"consultar_estado_cuenta">>,
                    !.categorias = <<None>>,
                    !.planned = outcome,
                    !.current_action_index = 0]
    ELSE [st EXCEPT !.actions = <<"crear_ticket">>,
                    !.categorias = <<default_categoria(st.params)>>,
                    !.planned = outcome,
                    !.current_action_index = 0]

SpPlanificar(outcome, actions) ==
    /\ sp.pc = "planificar"
    /\ \A i \in DOMAIN actions : actions[i] \in PlanTools(sp.specialist)
    /\ outcome # "plan" => actions = <<>>
    /\ sp' = [planificar(sp, outcome, actions) EXCEPT !.pc = "ejecutar_accion"]
    /\ UNCHANGED <<erpVars, wh, ag, cp, gw, hs, mcp, tk, lu, cf, ti, rt>>

\* the _tool_ methods: what they return (data), or that they raise
ToolReturn(data) == [raised |-> FALSE, data |-> data]
ToolRaise == [raised |-> TRUE, data |-> None]

tool_consultar_estado_cuenta(mock_mode, upstream) ==
    IF mock_mode THEN ToolReturn("estado_cuenta_mock")
    ELSE IF upstream = "no_disponible" THEN ToolReturn("estado_cuenta_mock")
    ELSE IF upstream = "cae_durante" THEN ToolRaise
    ELSE ToolReturn("estado_cuenta")

tool_obtener_link_pago(mock_mode, upstream) ==
    IF mock_mode THEN ToolReturn("link_pago_mock")
    ELSE IF upstream # "disponible" THEN ToolReturn("found_false_erp_no_disponible")
    ELSE ToolReturn("link_pago")

tool_registrar_confirmacion(mock_mode, upstream) ==
    IF mock_mode THEN ToolReturn("registered_mock")
    ELSE IF upstream # "disponible" THEN ToolReturn("registered_false")
    ELSE ToolReturn("registered")

tool_crear_ticket(mock_mode, upstream) ==
    IF mock_mode THEN ToolReturn("ticket_mock")
    ELSE IF upstream # "disponible" THEN ToolReturn("created_false")
    ELSE ToolReturn("ticket")

\* _ejecutar_accion, the try / except around the tool: the result dict.
\* upstream is kept beside it: what the service did during the call,
\* "sin_llamada" when the tool made no request
ActionResult(tool_name, known, mock_mode, upstream) ==
    LET ret == IF tool_name = "consultar_estado_cuenta"
               THEN tool_consultar_estado_cuenta(mock_mode, upstream)
               ELSE IF tool_name = "obtener_link_pago"
               THEN tool_obtener_link_pago(mock_mode, upstream)
               ELSE IF tool_name = "registrar_confirmacion_pago"
               THEN tool_registrar_confirmacion(mock_mode, upstream)
               ELSE tool_crear_ticket(mock_mode, upstream)
    IN  IF ~known
        THEN [tool |-> tool_name, success |-> FALSE, data |-> None,
              error |-> "Herramienta desconocida", upstream |-> "sin_llamada"]
        ELSE [tool |-> tool_name,
              success |-> ~ret.raised,
              data |-> ret.data,
              error |-> IF ret.raised THEN "str(e)" ELSE None,
              upstream |-> IF mock_mode THEN "sin_llamada" ELSE upstream]

\* _ejecutar_accion
ejecutar_accion(st, upstream) ==
    IF st.actions = <<>>
    THEN [st EXCEPT !.error = "No hay acciones para ejecutar"]
    ELSE IF st.current_action_index >= Len(st.actions)
    THEN st
    ELSE LET tool_name == st.actions[st.current_action_index + 1] IN
         [st EXCEPT
            !.action_results =
                Append(@, ActionResult(tool_name, tool_name \in KnownTools(st.specialist),
                                       st.MOCK_MODE, upstream)),
            !.current_action_index = @ + 1]

\* _hay_mas_acciones
hay_mas_acciones(st) ==
    IF st.actions = <<>> THEN "finalizar"
    ELSE IF st.current_action_index < Len(st.actions) THEN "continuar"
    ELSE "finalizar"

SpEjecutarAccion(upstream) ==
    /\ sp.pc = "ejecutar_accion"
    /\ upstream = "cae_durante" =>
          /\ sp.actions # <<>>
          /\ sp.current_action_index < Len(sp.actions)
          /\ sp.actions[sp.current_action_index + 1] = "consultar_estado_cuenta"
    /\ LET st == ejecutar_accion(sp, upstream) IN
       sp' = [st EXCEPT !.pc = IF hay_mas_acciones(st) = "continuar"
                               THEN "ejecutar_accion" ELSE "generar_reporte"]
    /\ UNCHANGED <<erpVars, wh, ag, cp, gw, hs, mcp, tk, lu, cf, ti, rt>>

\* _generar_reporte: success=all_success, requires_replan=not all_success
generar_reporte(st) ==
    LET all_success == \A i \in DOMAIN st.action_results : st.action_results[i].success
        combined_data == \E i \in DOMAIN st.action_results : st.action_results[i].data # None
        has_error == \E i \in DOMAIN st.action_results : st.action_results[i].error # None
    IN  [present |-> TRUE,
         success |-> all_success,
         has_data |-> combined_data,
         error |-> IF all_success /\ combined_data THEN None
                   ELSE IF has_error THEN "errors" ELSE "Error desconocido",
         requires_replan |-> ~all_success]

SpGenerarReporte ==
    /\ sp.pc = "generar_reporte"
    /\ sp' = [sp EXCEPT !.report = generar_reporte(sp), !.pc = "END"]
    /\ UNCHANGED <<erpVars, wh, ag, cp, gw, hs, mcp, tk, lu, cf, ti, rt>>
(***************************************************************************)
(* Orchestrator and tool server: the calls of the ERP's confirm_payment,   *)
(* adapters/mock_erp_adapter.py and tools/erp_tools.py.  Both post through *)
(* an httpx.AsyncClient built with its default transport.                  *)
(***************************************************************************)
\* MockERPAdapter.confirmar_pago, or the tool registrar_confirmacion_pago
ConfirmVias == {"adapter", "tool"}
\* how client.post and raise_for_status end: a 2xx response, a 4xx or 5xx
\* response, no connection, no answer in time
PostOutcomes == {"ok", "HTTPStatusError", "ConnectError", "TimeoutException"}

CallIdle == [pc |-> "idle", via |-> None, posts |-> 0, outcome |-> None, result |-> None]
CfIdle == cf = [c \in Ops |-> CallIdle]

\* a call that posts again when the request failed
confirmar_pago_next_Retry(outcome) == IF outcome = "ok" THEN "done" ELSE "post"

\* after the one post: return response.json(), or "raise" in both excepts
\* (the tool: return a dict in its except); never back to the post
confirmar_pago_next(outcome) == "done"

\* what the call gives its caller: the adapter the JSON or the exception,
\* the tool a dict with registered true or false
confirmar_pago_result(via, outcome) ==
    IF via = "adapter"
    THEN IF outcome = "ok" THEN "json" ELSE "raised"
    ELSE IF outcome = "ok" THEN "registered" ELSE "not_registered"

\* the call is made; the tool in mock mode answers without a request
CfLlamar(c, via, mock_mode) ==
    /\ cf[c].pc = "idle"
    /\ via = "adapter" => ~mock_mode
    /\ cf' = [cf EXCEPT ![c] =
                IF mock_mode
                THEN [CallIdle EXCEPT !.pc = "done", !.via = via,
                                      !.result = "registered_mock"]
                ELSE [CallIdle EXCEPT !.pc = "post", !.via = via]]
    /\ UNCHANGED <<erpVars, wh, ag, cp, gw, hs, mcp, tk, lu, sp, ti, rt>>

\* await client.post("/api/v1/pagos/confirmar", ...); raise_for_status()
CfPost(c, outcome) ==
    /\ cf[c].pc = "post"
    /\ cf[c].posts < MaxPosts
    /\ cf' = [cf EXCEPT ![c].posts = @ + 1,
                        ![c].outcome = outcome,
                        ![c].pc = confirmar_pago_next(outcome),
                        ![c].result =
                            IF confirmar_pago_next(outcome) = "done"
                            THEN confirmar_pago_result(cf[c].via, outcome)
                            ELSE None]
    /\ UNCHANGED <<erpVars, wh, ag, cp, gw, hs, mcp, tk, lu, sp, ti, rt>>

(***************************************************************************)
(* Orchestrator: models/tickets.py and the admin endpoints of api/admin.py *)
(*                                                                         *)
(* Each endpoint reads the row, changes it and commits in one session; it  *)
(* is one step.  A timestamp is "now" once set.                            *)
(***************************************************************************)
TicketIds == 1..MaxTickets
ESTADOS_VALIDOS == {"pendiente", "en_proceso", "resuelto"}
\* the estado query parameter: the valid ones and any other string
EstadosPedidos == ESTADOS_VALIDOS \cup {"cerrado"}

NoTicket == [estado |-> None, respuesta_admin |-> None, resolved_at |-> None]
\* Ticket.crear: estado takes the column default
Ticket_crear == [estado |-> "pendiente", respuesta_admin |-> None, resolved_at |-> None]
\* Ticket.resolver
Ticket_resolver(ticket, respuesta) ==
    [ticket EXCEPT !.estado = "resuelto", !.respuesta_admin = respuesta,
                   !.resolved_at = "now"]

NoAdminRequest == [op |-> None, ticket_id |-> NULL, status |-> NULL]
TiIdle == ti = [tickets |-> [t \in TicketIds |-> NoTicket], last |-> NoAdminRequest]

\* _tool_crear_ticket: Ticket.crear, session.add, commit
TiCrear(t) ==
    /\ ti.tickets[t] = NoTicket
    /\ ti' = [ti EXCEPT !.tickets[t] = Ticket_crear,
                        !.last = [op |-> "crear", ticket_id |-> t, status |-> NULL]]
    /\ UNCHANGED <<erpVars, wh, ag, cp, gw, hs, mcp, tk, lu, sp, cf, rt>>

\* resolver_ticket: 404 without a row, 400 for a ticket already resuelto
resolver_ticket(tickets, t, respuesta) ==
    IF tickets[t] = NoTicket THEN [tickets |-> tickets, status |-> 404]
    ELSE IF tickets[t].estado = "resuelto" THEN [tickets |-> tickets, status |-> 400]
    ELSE [tickets |-> [tickets EXCEPT ![t] = Ticket_resolver(@, respuesta)],
          status |-> 200]

TiResolver(t) ==
    /\ LET r == resolver_ticket(ti.tickets, t, "respuesta") IN
       ti' = [tickets |-> r.tickets,
              last |-> [op |-> "resolver", ticket_id |-> t, status |-> r.status]]
    /\ UNCHANGED <<erpVars, wh, ag, cp, gw, hs, mcp, tk, lu, sp, cf, rt>>

\* cambiar_estado_ticket: 400 for an estado outside estados_validos, 404
\* without a row; otherwise the estado is written, with resolved_at for
\* resuelto
cambiar_estado_ticket(tickets, t, estado) ==
    IF estado \notin ESTADOS_VALIDOS THEN [tickets |-> tickets, status |-> 400]
    ELSE IF tickets[t] = NoTicket THEN [tickets |-> tickets, status |-> 404]
    ELSE [tickets |->
              [tickets EXCEPT ![t].estado = estado,
                              ![t].resolved_at =
                                  IF estado = "resuelto" THEN "now" ELSE @],
          status |-> 200]

TiCambiarEstado(t, estado) ==
    /\ LET r == cambiar_estado_ticket(ti.tickets, t, estado) IN
       ti' = [tickets |-> r.tickets,
              last |-> [op |-> "cambiar_estado", ticket_id |-> t, status |-> r.status]]
    /\ UNCHANGED <<erpVars, wh, ag, cp, gw, hs, mcp, tk, lu, sp, cf, rt>>

(***************************************************************************)
(* Orchestrator: agents/router.py, MessageRouter                           *)
(*                                                                         *)
(* A message is the sequence of its words.  "kw in text" is a substring    *)
(* test: a word contains the keywords written inside it, whatever its      *)
(* case, and len(text) counts the characters and the blanks between.       *)
(***************************************************************************)
KEYWORDS_SIMPLE == {"saldo"}
KEYWORDS_ESCALAMIENTO == {"reclamo"}
KEYWORDS_SALUDO == {"hola", "hi"}

\* words of a message: keywords in either case or inside a longer word, a
\* word with no keyword, and a long word with no keyword
Words == {"reclamo", "RECLAMOS", "saldo", "Hola", "chico", "consulta",
          "extraordinariamente"}
Messages == SeqsUpTo(Words, MaxLen)

\* str.lower of a word
lower(word) ==
    IF word = "RECLAMOS" THEN "reclamos"
    ELSE IF word = "Hola" THEN "hola"
    ELSE word

\* the keywords that are substrings of a lower-case word
KeywordsIn(word) ==
    IF word \in {"reclamo", "reclamos"} THEN {"reclamo"}
    ELSE IF word = "saldo" THEN {"saldo"}
    ELSE IF word = "hola" THEN {"hola"}
    ELSE IF word = "chico" THEN {"hi"}
    ELSE {}

\* len of a word
WordLen(word) ==
    IF word \in {"reclamo"} THEN 7
    ELSE IF word \in {"RECLAMOS", "reclamos", "consulta"} THEN 8
    ELSE IF word \in {"saldo", "chico"} THEN 5
    ELSE IF word \in {"Hola", "hola"} THEN 4
    ELSE 19

\* len(message.lower().strip()): the words and one blank between two
RECURSIVE TextLen(_)
TextLen(message) ==
    IF message = <<>> THEN 0
    ELSE IF Len(message) = 1 THEN WordLen(message[1])
    ELSE WordLen(Head(message)) + 1 + TextLen(Tail(message))

\* _contains_keywords over message.lower()
contains_keywords(message, keywords) ==
    \E i \in DOMAIN message : KeywordsIn(lower(message[i])) \cap keywords # {}

\* a router that looks for simple-query keywords first
route_SimpleFirst(message) ==
    IF contains_keywords(message, KEYWORDS_SIMPLE) THEN "asistente"
    ELSE IF contains_keywords(message, KEYWORDS_ESCALAMIENTO) THEN "agente"
    ELSE IF TextLen(message) < 30 /\ contains_keywords(message, KEYWORDS_SALUDO)
    THEN "saludo"
    ELSE "asistente"

\* MessageRouter.route
route(message) ==
    IF contains_keywords(message, KEYWORDS_ESCALAMIENTO) THEN "agente"
    ELSE IF contains_keywords(message, KEYWORDS_SIMPLE) THEN "asistente"
    ELSE IF TextLen(message) < 30 /\ contains_keywords(message, KEYWORDS_SALUDO)
    THEN "saludo"
    ELSE "asistente"

RtIdle == rt = [pc |-> "done", message |-> <<>>, route |-> None]
RtInit == rt = [pc |-> "idle", message |-> <<>>, route |-> None]

\* a message arrives
RtRecibir(message) ==
    /\ rt.pc = "idle"
    /\ rt' = [pc |-> "route", message |-> message, route |-> None]
    /\ UNCHANGED <<erpVars, wh, ag, cp, gw, hs, mcp, tk, lu, sp, cf, ti>>

\* router.route(message)
RtRoute ==
    /\ rt.pc = "route"
    /\ rt' = [rt EXCEPT !.pc = "done", !.route = route(rt.message)]
    /\ UNCHANGED <<erpVars, wh, ag, cp, gw, hs, mcp, tk, lu, sp, cf, ti>>

(***************************************************************************)
(* Specifications of the ERP service                                       *)
(***************************************************************************)
\* the HTTP service alone: concurrent payment confirmations
NextErpHttp ==
    \/ \E r \in Reqs, cid \in CuotaIds \cup {CUOTA_NO_EXISTE} : Recibir(r, cid)
    \/ \E r \in Reqs : CrearPagoSelect(r)
    \/ \E r \in Reqs : CrearPagoFlush(r)
    \/ \E r \in Reqs : Commit(r)
    \/ \E r \in Reqs : CommitFalla(r)

InitErp == ErpInit /\ WhIdle /\ AgIdle /\ CpIdle /\ GwIdle /\ HsIdle /\ McpIdle /\ TkIdle /\ LuIdle /\ SpIdle /\ CfIdle /\ TiIdle /\ RtIdle

SpecErpHttp == InitErp /\ [][NextErpHttp]_vars

\* the HTTP service and the crud layer's state update
NextErp ==
    \/ NextErpHttp
    \/ \E cid \in CuotaIds, e \in EstadoCuota, f \in {NULL, SeedFecha} :
           ActualizarEstadoCuota(cid, e, f)

SpecErp == InitErp /\ [][NextErp]_vars

(***************************************************************************)
(* Specification of the outbound webhook                                  *)
(***************************************************************************)
NextWebhook ==
    \/ WhSend
    \/ \E o \in Outcomes : WhPost(o)
    \/ WhSleep

InitWebhook == ErpIdle /\ WhInit /\ AgIdle /\ CpIdle /\ GwIdle /\ HsIdle /\ McpIdle /\ TkIdle /\ LuIdle /\ SpIdle /\ CfIdle /\ TiIdle /\ RtIdle

SpecWebhook == InitWebhook /\ [][NextWebhook]_vars

(***************************************************************************)
(* Specification of the ERP service's HTTP interface together with the    *)
(* background deliveries it enqueues                                       *)
(***************************************************************************)
NextErpNotify ==
    \/ \E r \in Reqs, cid \in CuotaIds \cup {CUOTA_NO_EXISTE} : Recibir(r, cid)
    \/ \E r \in Reqs : CrearPagoSelect(r)
    \/ \E r \in Reqs : CrearPagoFlush(r)
    \/ \E r \in Reqs : Commit(r)
    \/ \E r \in Reqs : CommitFalla(r)
    \/ NotifyStart
    \/ \E o \in NotifyOutcomes : WhPost(o)
    \/ WhSleep
    \/ NotifyReturn

SpecErpNotify == InitErp /\ [][NextErpNotify]_vars

(***************************************************************************)
(* Specification of one run of the hierarchical agent                      *)
(***************************************************************************)
NextAgent ==
    \/ \E ctx \in {None, "responsable"} : NodoCargarContexto(ctx)
    \/ \E out \in ManagerOutputs : NodoManager(out)
    \/ \E success \in BOOLEAN : NodoEjecutarEspecialista(success)
    \/ NodoEvaluar
    \/ \E llm \in SynthOutcomes : NodoSintetizar(llm)

InitAgent == ErpIdle /\ WhIdle /\ AgInit /\ CpIdle /\ GwIdle /\ HsIdle /\ McpIdle /\ TkIdle /\ LuIdle /\ SpIdle /\ CfIdle /\ TiIdle /\ RtIdle

SpecAgent == InitAgent /\ [][NextAgent]_vars

\* a run whose graph is being executed takes its next step: graph.ainvoke
\* runs node after node until END
SpecAgentLive == InitAgent /\ [][NextAgent]_vars /\ WF_vars(NextAgent)

(***************************************************************************)
(* Specification of one run of the code planner                            *)
(***************************************************************************)
NextCodePlanner ==
    \/ \E llm \in PlannerOutcomes : NodoPlanner(llm)
    \/ \E outcome \in {"success_true", "success_false", "raise"} : NodoExecutor(outcome)
    \/ NodoSelfCorrection
    \/ \E llm \in ReflectorOutcomes : NodoReflector(llm)
    \/ \E llm \in ResponderOutcomes : NodoResponder(llm)

InitCodePlanner == ErpIdle /\ WhIdle /\ AgIdle /\ CpInit /\ GwIdle /\ HsIdle /\ McpIdle /\ TkIdle /\ LuIdle /\ SpIdle /\ CfIdle /\ TiIdle /\ RtIdle

SpecCodePlanner == InitCodePlanner /\ [][NextCodePlanner]_vars

(***************************************************************************)
(* Specification of the orchestrator's ERP webhook and notifications       *)
(***************************************************************************)
NextGestor ==
    \/ \E p \in Ops, c \in CuotaIds \cup {None}, a \in {None, "A001"}, ok \in BOOLEAN :
          WebhookPagoConfirmado(p, c, a, ok)
    \/ \E p \in Ops, c \in CuotaIds \cup {None}, e \in {PENDIENTE, PAGADA}, ok \in BOOLEAN :
          WebhookCuotaGenerada(p, c, e, ok)
    \/ \E p \in Ops, o \in EnvioOutcomes : EnviarConfirmacionPago(p, o)
    \/ \E p \in Ops, c \in CuotaIds, d \in DiasAntes, ok \in BOOLEAN :
          RecordatorioVerificar(p, c, d, ok)
    \/ \E p \in Ops, o \in {"no_enviado", "enviado", "registro_falla"} :
          RecordatorioEnviar(p, o)

InitGestor == ErpIdle /\ WhIdle /\ AgIdle /\ CpIdle /\ GwInit /\ HsIdle /\ McpIdle /\ TkIdle /\ LuIdle /\ SpIdle /\ CfIdle /\ TiIdle /\ RtIdle

SpecGestor == InitGestor /\ [][NextGestor]_vars

(***************************************************************************)
(* Specification of the WhatsApp verification handshake                    *)
(***************************************************************************)
NextHandshake ==
    \/ \E m \in HubModes, t \in HubVerifyTokens, c \in HubChallenges : HsRecibir(m, t, c)
    \/ HsResponder

InitHandshake == ErpIdle /\ WhIdle /\ AgIdle /\ CpIdle /\ GwIdle /\ HsIdle /\ McpIdle /\ TkIdle /\ LuIdle /\ SpIdle /\ CfIdle /\ TiIdle /\ RtIdle

SpecHandshake == InitHandshake /\ [][NextHandshake]_vars

(***************************************************************************)
(* Specification of the tool server                                        *)
(***************************************************************************)
HandlerOutcomesAll == {"returns", "raises", "TypeError"}
ArgumentKinds == {"validos", "invalidos"}

NextMcp ==
    \/ \E n \in ToolNames, mr \in MockResponses : RegisterTool(n, mr)
    \/ \E e \in BOOLEAN : SetMockMode(e)
    \/ \E n \in CallNames \cup {""}, a \in ArgumentKinds, um \in BOOLEAN,
          o \in HandlerOutcomesAll : CallTool(n, a, um, o)
    \/ \E n \in CallNames \cup {"", None}, a \in ArgumentKinds,
          o \in HandlerOutcomesAll : HandleCallTool(n, a, o)

InitMcp == ErpIdle /\ WhIdle /\ AgIdle /\ CpIdle /\ GwIdle /\ HsIdle /\ McpIdle /\ TkIdle /\ LuIdle /\ SpIdle /\ CfIdle /\ TiIdle /\ RtIdle

SpecMcp == InitMcp /\ [][NextMcp]_vars

(***************************************************************************)
(* Specification of the tool server's HTTP application                     *)
(***************************************************************************)
NextMcpApp ==
    \/ Lifespan
    \/ \E e \in BOOLEAN : TestSetMockMode(e)
    \/ \E n \in CallNames, a \in ArgumentKinds, o \in HandlerOutcomesAll :
          RestCallTool(n, a, o)
    \/ \E me \in RequestMethods, id \in RequestIds, r \in BOOLEAN,
          n \in CallNames \cup {None}, a \in ArgumentKinds, o \in HandlerOutcomesAll :
          McpEndpoint(me, id, r, n, a, o)

InitMcpApp == ErpIdle /\ WhIdle /\ AgIdle /\ CpIdle /\ GwIdle /\ HsIdle /\ McpInit /\ TkIdle /\ LuIdle /\ SpIdle /\ CfIdle /\ TiIdle /\ RtIdle

SpecMcpApp == InitMcpApp /\ [][NextMcpApp]_vars

(***************************************************************************)
(* Specification of token tracking                                         *)
(***************************************************************************)
NextTokens ==
    \/ \E t \in TkTasks : TkStartSession(t)
    \/ \E t \in TkTasks : TkFinalizeSession(t)
    \/ \E t \in TkTasks, me \in {"ainvoke", "invoke"} : TkInvoke(t, me)
    \/ \E t \in TkTasks : TkLlmRaises(t)
    \/ \E t \in TkTasks, u \in TokenUsages : TkLlmReturns(t, u)
    \/ \E e \in BOOLEAN : TkSetEnabled(e)

InitTokens == ErpIdle /\ WhIdle /\ AgIdle /\ CpIdle /\ GwIdle /\ HsIdle /\ McpIdle /\ TkIdle /\ LuIdle /\ SpIdle /\ CfIdle /\ TiIdle /\ RtIdle

SpecTokens == InitTokens /\ [][NextTokens]_vars

(***************************************************************************)
(* Specification of the guardian lookup                                    *)
(***************************************************************************)
NextLookup ==
    \/ \E h \in Handles : LuRecibir(h)
    \/ LuResponder

InitLookup == ErpIdle /\ WhIdle /\ AgIdle /\ CpIdle /\ GwIdle /\ HsIdle /\ McpIdle /\ TkIdle /\ LuInit /\ SpIdle /\ CfIdle /\ TiIdle /\ RtIdle

SpecLookup == InitLookup /\ [][NextLookup]_vars

(***************************************************************************)
(* Specification of a specialist subgraph                                  *)
(***************************************************************************)
NextSpecialist ==
    \/ \E outcome \in PlanOutcomes, actions \in SeqsUpTo(AllPlanTools, MaxActions) :
          SpPlanificar(outcome, actions)
    \/ \E u \in Upstreams : SpEjecutarAccion(u)
    \/ SpGenerarReporte

InitSpecialist == ErpIdle /\ WhIdle /\ AgIdle /\ CpIdle /\ GwIdle /\ HsIdle /\ McpIdle /\ TkIdle /\ LuIdle /\ SpInit /\ CfIdle /\ TiIdle /\ RtIdle

SpecSpecialist == InitSpecialist /\ [][NextSpecialist]_vars
(***************************************************************************)
(* Specification of the calls of confirm_payment                           *)
(***************************************************************************)
NextConfirm ==
    \/ \E c \in Ops, via \in ConfirmVias, mock_mode \in BOOLEAN : CfLlamar(c, via, mock_mode)
    \/ \E c \in Ops, o \in PostOutcomes : CfPost(c, o)

InitConfirm == ErpIdle /\ WhIdle /\ AgIdle /\ CpIdle /\ GwIdle /\ HsIdle /\ McpIdle /\ TkIdle /\ LuIdle /\ SpIdle /\ CfIdle /\ TiIdle /\ RtIdle

SpecConfirm == InitConfirm /\ [][NextConfirm]_vars

(***************************************************************************)
(* Specification of the tickets                                            *)
(***************************************************************************)
NextTickets ==
    \/ \E t \in TicketIds : TiCrear(t)
    \/ \E t \in TicketIds : TiResolver(t)
    \/ \E t \in TicketIds, e \in EstadosPedidos : TiCambiarEstado(t, e)

InitTickets == ErpIdle /\ WhIdle /\ AgIdle /\ CpIdle /\ GwIdle /\ HsIdle /\ McpIdle /\ TkIdle /\ LuIdle /\ SpIdle /\ CfIdle /\ TiIdle /\ RtIdle

SpecTickets == InitTickets /\ [][NextTickets]_vars

(***************************************************************************)
(* Specification of the keyword router                                     *)
(***************************************************************************)
NextRouter ==
    \/ \E message \in Messages : RtRecibir(message)
    \/ RtRoute

InitRouter == ErpIdle /\ WhIdle /\ AgIdle /\ CpIdle /\ GwIdle /\ HsIdle /\ McpIdle /\ TkIdle /\ LuIdle /\ SpIdle /\ CfIdle /\ TiIdle /\ RtInit

SpecRouter == InitRouter /\ [][NextRouter]_vars

(***************************************************************************)
(* Claims about the ERP service                                            *)
(***************************************************************************)
PagosDe(c) == {p \in pagos : p.cuota_id = c}

\* C1: for any interleaving of payment confirmations, an installment never
\* has more than one Payment row, and of the confirmations of one
\* installment at most one is answered 200 (the others fail with 400).
C1_AtMostOnePayment ==
    /\ \A c \in CuotaIds : Cardinality(PagosDe(c)) <= 1
    /\ \A r1, r2 \in Reqs :
           (r1 # r2 /\ req[r1].status = 200 /\ req[r2].status = 200)
               => req[r1].cuota_id # req[r2].cuota_id

\* C2: in every reachable state, for every installment, estado = pagada
\* if and only if fecha_pago is not NULL.
C2_PaidIffFechaPago ==
    \A c \in CuotaIds : (cuotas[c].estado = PAGADA) <=> (cuotas[c].fecha_pago # NULL)

\* C3: an installment's state changes only pendiente -> pagada or
\* pendiente -> vencida; a paid installment never changes state again.
C3_OnlyForwardTransitions ==
    [][\A c \in CuotaIds :
          cuotas'[c].estado # cuotas[c].estado
              => /\ cuotas[c].estado = PENDIENTE
                 /\ cuotas'[c].estado \in {PAGADA, VENCIDA}]_vars

\* what request r has written or enqueued
EfectosDe(r) ==
    <<{p \in pagos : p.id = <<"req", r>>},
      {i \in DOMAIN bgTasks : bgTasks[i].req = r}>>

\* C4: confirming payment of an installment that is already paid answers 400,
\* leaves the installment and the payments unchanged and enqueues no webhook.
C4_AlreadyPaid400 ==
    [][\A r \in Reqs :
          (/\ req[r].pc = "select"
           /\ req'[r] # req[r]
           /\ req[r].cuota_id \in CuotaIds
           /\ cuotas[req[r].cuota_id].estado = PAGADA)
              => /\ req'[r].status = 400
                 /\ req'[r].pc = "done"
                 /\ cuotas' = cuotas /\ pagos' = pagos /\ bgTasks' = bgTasks
                 /\ EfectosDe(r)' = <<{}, {}>>]_vars

\* a second confirmation was refused after a first one had paid the installment
C4_Witness ==
    \E r1, r2 \in Reqs :
        /\ req[r1].pc = "done" /\ req[r1].status = 200
        /\ req[r2].pc = "done" /\ req[r2].status = 400
        /\ req[r2].cuota_id = req[r1].cuota_id
        /\ cuotas[req[r2].cuota_id].estado = PAGADA
        /\ Cardinality(PagosDe(req[r2].cuota_id)) = 1

\* C5: confirming payment of an installment id that does not exist answers
\* 404, creates no Payment, changes no installment and enqueues no webhook.
C5_Missing404 ==
    [][\A r \in Reqs :
          (/\ req[r].pc = "select"
           /\ req'[r] # req[r]
           /\ req[r].cuota_id \notin CuotaIds)
              => /\ req'[r].status = 404
                 /\ req'[r].pc = "done"
                 /\ cuotas' = cuotas /\ pagos' = pagos /\ bgTasks' = bgTasks
                 /\ EfectosDe(r)' = <<{}, {}>>]_vars

\* a confirmation for a missing id was answered 404 while another was paid
C5_Witness ==
    \E r1, r2 \in Reqs :
        /\ req[r1].pc = "done" /\ req[r1].status = 404
        /\ req[r1].cuota_id = CUOTA_NO_EXISTE
        /\ req[r2].pc = "done" /\ req[r2].status = 200

(***************************************************************************)
(* Claims about the hierarchical agent                                     *)
(***************************************************************************)
\* C6: a run of the hierarchical agent executes the manager node at most
\* 1 + max_replans times, whatever the plans and the specialists' reports.
C6_ManagerAtMostOnePlusMaxReplans ==
    ag.manager_calls <= 1 + ag.max_replans

\* a finished run that planned once and replanned max_replans times
C6_Witness ==
    /\ ag.pc = "END"
    /\ ag.replan_count = ag.max_replans
    /\ ag.manager_calls = 1 + ag.max_replans

(***************************************************************************)
(* Claims about the code planner                                           *)
(***************************************************************************)
\* C7: a run of the code planner asks the model for code at most
\* MAX_PLANNER_ITERATIONS times, and between two reflections that send it
\* back to the planner runs the executor at most max_corrections + 1 times.
C7_GeneratorAndExecutorBounded ==
    /\ cp.gen_calls <= MAX_PLANNER_ITERATIONS
    /\ cp.round_execs <= cp.max_corrections + 1

\* a finished run that used all its generations, had an execution corrected
\* and entered the planner once more for the canned code
C7_Witness ==
    /\ cp.pc = "END"
    /\ cp.gen_calls = MAX_PLANNER_ITERATIONS
    /\ cp.planner_iterations = MAX_PLANNER_ITERATIONS + 1
    /\ cp.correction_count > 0

\* C8: after a failed execution the run goes to self_correction exactly when
\* correction_count < max_corrections, and otherwise to the responder node.
C8_FailedExecutionRouting ==
    [][(cp.pc = "executor" /\ cp'.pc # "executor" /\ cp'.execution_error)
          => IF cp'.correction_count < cp'.max_corrections
             THEN cp'.pc = "self_correction"
             ELSE cp'.pc = "responder"]_vars

\* C9: a finished run whose reflections never judged the result valid asked
\* for code at most MAX_PLANNER_ITERATIONS times and ended through the
\* responder node writing final_response, not through an exception.
C9_NeverValidStillResponds ==
    (cp.pc = "END" /\ cp.reflections > 0 /\ ~cp.valid_seen)
        => /\ cp.gen_calls <= MAX_PLANNER_ITERATIONS
           /\ ~cp.raised
           /\ cp.final_response # None

(***************************************************************************)
(* Claims about the outbound webhook                                       *)
(***************************************************************************)
AllFailed(os) == \A i \in DOMAIN os : os[i] \in FailingOutcomes

\* C10: a client constructed with max_retries = N, N >= 1, whose target fails
\* on every attempt makes exactly N attempts, then logs the failure and
\* returns False; it never makes an (N+1)-th attempt.
C10_ExactlyNAttempts ==
    wh.arg_max_retries >= 1 =>
        /\ Len(wh.outcomes) <= wh.arg_max_retries
        /\ (wh.pc = "done" /\ AllFailed(wh.outcomes)) =>
               /\ Len(wh.outcomes) = wh.arg_max_retries
               /\ wh.result = "False"
               /\ wh.error_log = wh.arg_max_retries

\* a delivery with N = 4 ended after four failed attempts
C10_Witness ==
    /\ wh.arg_max_retries = MaxRetriesArg
    /\ wh.pc = "done"
    /\ Len(wh.outcomes) = MaxRetriesArg
    /\ AllFailed(wh.outcomes)
    /\ wh.result = "False"

RECURSIVE SumSeq(_)
SumSeq(q) == IF q = <<>> THEN 0 ELSE Head(q) + SumSeq(Tail(q))

\* 2^0 + 2^1 + ... + 2^(n-2), the empty sum for n = 1
RECURSIVE GeometricSum(_)
GeometricSum(n) == IF n <= 1 THEN 0 ELSE 2 ^ (n - 2) + GeometricSum(n - 1)

\* C11: the wait after the k-th failed attempt (k = 0, 1, ...) is
\* base_delay * 2^k; there is a wait after every failed attempt but the last,
\* so a delivery that failed N times waited N - 1 times, in total
\* base_delay * (2^0 + ... + 2^(N-2)).
C11_ExponentialBackoff ==
    /\ \A k \in DOMAIN wh.sleeps : wh.sleeps[k] = wh.base_delay * (2 ^ (k - 1))
    /\ Len(wh.sleeps) <= wh.max_retries - 1
    /\ wh.pc = "sleep" => Len(wh.sleeps) = Len(wh.outcomes) - 1
    /\ wh.pc = "post" => Len(wh.sleeps) = Len(wh.outcomes)
    /\ (wh.pc = "done" /\ AllFailed(wh.outcomes)) =>
           /\ Len(wh.sleeps) = wh.max_retries - 1
           /\ SumSeq(wh.sleeps) >= wh.base_delay * GeometricSum(wh.max_retries)

\* a delivery with base_delay 2 failed four times and waited 2, 4 and 8
C11_Witness ==
    /\ wh.pc = "done"
    /\ wh.result = "False"
    /\ wh.base_delay = MaxBaseDelayArg
    /\ wh.max_retries = MaxRetriesArg
    /\ Len(wh.sleeps) = MaxRetriesArg - 1
    /\ wh.sleeps[3] = 4 * MaxBaseDelayArg

\* C12: an attempt is a success exactly when it got a response with status
\* 200, 201 or 202, and it is then the last attempt; after any other status
\* or any exception the delivery goes on to the next attempt while attempts
\* remain, and no exception leaves the delivery.
C12_SuccessStatusesAndRetry ==
    /\ wh.pc # "raised"
    /\ \A i \in DOMAIN wh.outcomes :
          (wh.outcomes[i].kind = "response" /\ wh.outcomes[i].status \in {200, 201, 202})
              <=> (i = Len(wh.outcomes) /\ wh.result = "True")
    /\ wh.result = "True" => (wh.pc = "done" /\ wh.outcomes # <<>>)
    /\ (wh.pc # "idle" /\ wh.result # "True" /\ Len(wh.outcomes) < wh.max_retries)
          => wh.pc \in {"post", "sleep"}

\* a delivery that met an exception and a 204, and then succeeded with 201
C12_Witness ==
    /\ wh.pc = "done"
    /\ wh.result = "True"
    /\ Len(wh.outcomes) = 3
    /\ wh.outcomes[1].kind = "Exception"
    /\ wh.outcomes[2].status = 204
    /\ wh.outcomes[3].status = 201

(***************************************************************************)
(* Claims about payment confirmation and its webhook                       *)
(***************************************************************************)
\* the background tasks whose delivery has started, in a value of wh
Started(w) == 1..(IF w.task # NULL THEN w.task ELSE Len(w.log))

\* C13: the response of a payment confirmation is produced before the first
\* step of its webhook delivery, and no step of a delivery, failed and
\* exhausted ones included, changes a response, an installment or a payment.
C13_DeliveryNeverBlocksCaller ==
    [][/\ \A i \in Started(wh') : req'[bgTasks'[i].req].status = 200
       /\ wh' # wh => (req' = req /\ cuotas' = cuotas /\ pagos' = pagos)]_vars

\* a confirmation was answered 200 and committed, and its delivery gave up
\* after three failed attempts
C13_Witness ==
    \E i \in DOMAIN wh.log :
        LET r == bgTasks[wh.log[i].task].req IN
        /\ wh.log[i].result = "False"
        /\ wh.log[i].posts = webhook_max_retries
        /\ req[r].pc = "done" /\ req[r].status = 200
        /\ NuevoPago(r, req[r].cuota_id) \in pagos

\* C14: a confirmation answered 200 enqueues exactly one delivery, and once
\* committed leaves its installment paid; a delivery whose first attempt
\* succeeds makes exactly one POST.
C14_WebhookFiredOnce ==
    /\ \A r \in Reqs :
          req[r].status = 200 =>
              /\ Cardinality({i \in DOMAIN bgTasks : bgTasks[i].req = r}) = 1
              /\ req[r].pc = "done" => cuotas[req[r].cuota_id].estado = PAGADA
    /\ \A r \in Reqs :
          req[r].status # 200 => {i \in DOMAIN bgTasks : bgTasks[i].req = r} = {}
    /\ \A i \in DOMAIN wh.log :
          /\ wh.log[i].task = i
          /\ wh.log[i].first_ok => (wh.log[i].posts = 1 /\ wh.log[i].result = "True")

\* a pending installment was confirmed and committed, and its delivery
\* succeeded at the first attempt
C14_Witness ==
    \E i \in DOMAIN wh.log :
        LET r == bgTasks[wh.log[i].task].req IN
        /\ wh.log[i].first_ok /\ wh.log[i].posts = 1
        /\ req[r].pc = "done" /\ req[r].status = 200
        /\ cuotas[req[r].cuota_id] = CuotaPagada(SeedCuota(PENDIENTE), r)
        /\ Cardinality(pagos) = 1

(***************************************************************************)
(* Claims about the orchestrator's mirror and notifications                *)
(***************************************************************************)
\* C15: for every installment I and notification kind K, at most one
\* notificaciones_enviadas row (I, K) is ever created, for any interleaving
\* of reminders and payment-confirmed webhook deliveries, duplicates included.
C15_NotificationAtMostOnce ==
    \A k \in CuotaIds \X TiposNotificacion : gw.notificaciones[k] <= 1

\* C16: once a payment-confirmed webhook for installment I has been answered
\* 200, the mirror holds a row for I in state paid, whether or not it held a
\* row for I before.
C16_AcceptedWebhookLeavesMirrorPaid ==
    \A p \in Ops :
        (gw.ops[p].kind = "pago_confirmado" /\ gw.ops[p].status = 200)
            => gw.cache[gw.ops[p].cuota_id] = PAGADA

(***************************************************************************)
(* Claims about the WhatsApp verification handshake                        *)
(***************************************************************************)
\* C17: the handshake answers with the integer challenge if and only if the
\* submitted verify-token equals the configured one, and with 403 otherwise.
\* Stated for the requests the provider sends: hub.mode = subscribe and all
\* three parameters present.
C17_ChallengeIffTokenMatches ==
    (/\ hs.pc = "done"
     /\ hs.hub_mode = "subscribe"
     /\ None \notin {hs.hub_verify_token, hs.hub_challenge})
        => IF hs.hub_verify_token = WHATSAPP_VERIFY_TOKEN
           THEN /\ hs.response.status = 200
                /\ Len(hs.response.body) = 1
                /\ hs.response.body[1] \in Int
           ELSE hs.response.status = 403

(***************************************************************************)
(* Claims about the tool server                                            *)
(***************************************************************************)
\* a step in which a tool call was made and answered
Called == mcp'.call # mcp.call

\* C18: a tool call with a name that is not registered returns success
\* false, the not-found error and data null, and does not raise.
C18_UnknownToolNotFound ==
    [][(/\ Called
        /\ mcp'.call.name \notin {None, ""}
        /\ ~get_tool(mcp.tools, mcp'.call.name).registered)
          => /\ mcp'.call.result.success = FALSE
             /\ mcp'.call.result.error = "no encontrada"
             /\ mcp'.call.result.data = None
             /\ ~mcp'.call.result.handler_invoked
             /\ ~mcp'.call.result.raised]_vars

\* an unregistered name was called, through the registry in mock mode, while
\* another tool was registered
C18_Witness ==
    /\ mcp.call.via = "registry"
    /\ mcp.call.name = "tool_inexistente"
    /\ mcp.call.use_mock
    /\ mcp.call.result.error = "no encontrada"
    /\ \E n \in ToolNames : mcp.tools[n].registered

\* C19: in mock mode, a call of a registered tool that has a mock_response
\* returns that mock_response as data, whatever the arguments, and the
\* handler is not invoked.
C19_MockResponseVerbatim ==
    [][(/\ Called
        /\ mcp'.call.use_mock
        /\ get_tool(mcp.tools, mcp'.call.name).registered
        /\ get_tool(mcp.tools, mcp'.call.name).mock_response # None)
          => /\ mcp'.call.result.success
             /\ mcp'.call.result.data = get_tool(mcp.tools, mcp'.call.name).mock_response
             /\ ~mcp'.call.result.handler_invoked]_vars

\* C20: when the handler of a registered tool is invoked, call_tool returns
\* success true, error null and the handler's result if the handler returns,
\* success false, str(e) and data null if it raises e; no exception leaves
\* call_tool, whatever the arguments.
C20_HandlerResultWrapped ==
    [][(Called /\ mcp'.call.result.handler_invoked)
          => /\ get_tool(mcp.tools, mcp'.call.name).registered
             /\ ~mcp'.call.result.raised
             /\ \/ /\ mcp'.call.result.success
                   /\ mcp'.call.result.error = None
                   /\ mcp'.call.result.data = "handler_result"
                \/ /\ ~mcp'.call.result.success
                   /\ mcp'.call.result.error = "str(e)"
                   /\ mcp'.call.result.data = None]_vars

\* the handler of a registered tool was called with arguments that do not
\* fit its signature, and the TypeError came back as a failure result
C20_Witness ==
    /\ mcp.call.via = "registry"
    /\ mcp.call.name \in ToolNames
    /\ mcp.tools[mcp.call.name].registered
    /\ mcp.call.arguments = "invalidos"
    /\ mcp.call.result.handler_invoked
    /\ mcp.call.result.error = "str(e)"

(***************************************************************************)
(* Claims about the tool server's HTTP application                         *)
(***************************************************************************)
\* C21: mock mode is one process-wide boolean: at every moment the REST
\* endpoint and the JSON-RPC endpoint pass the same mock-mode value to a
\* tool call, also after mock mode was switched at runtime.
C21_OneMockModeValue ==
    mcp.started => rest_use_mock(mcp) = jsonrpc_use_mock(mcp)

\* C22: a JSON-RPC request with an unknown method is answered with error
\* code -32601, one whose handling raises with -32603; both answers echo the
\* request id and carry an error and no result.
C22_JsonRpcErrors ==
    mcp.rpc.method # None =>
        /\ (mcp.rpc.method \notin RpcMethods \/ mcp.rpc.raised)
              => /\ mcp.rpc.response.request_id = mcp.rpc.id
                 /\ mcp.rpc.response.has_error
                 /\ ~mcp.rpc.response.has_result
        /\ mcp.rpc.method \notin RpcMethods => mcp.rpc.response.code = -32601
        /\ (mcp.rpc.method \in RpcMethods /\ mcp.rpc.raised)
              => mcp.rpc.response.code = -32603

\* a request carrying an id whose handling raised was answered -32603, and
\* one with an unknown method and no id was answered -32601
C22_Witness ==
    \/ /\ mcp.rpc.method = "tools/list"
       /\ mcp.rpc.raised
       /\ mcp.rpc.id = "test-1"
       /\ mcp.rpc.response.code = -32603
    \/ /\ mcp.rpc.method = "tools/unknown"
       /\ mcp.rpc.id = None
       /\ mcp.rpc.response.code = -32601

(***************************************************************************)
(* Claims about token tracking                                             *)
(***************************************************************************)
RECURSIVE SumPrompt(_)
SumPrompt(inferences) ==
    IF inferences = <<>> THEN 0
    ELSE Head(inferences).prompt_tokens + SumPrompt(Tail(inferences))
RECURSIVE SumCompletion(_)
SumCompletion(inferences) ==
    IF inferences = <<>> THEN 0
    ELSE Head(inferences).completion_tokens + SumCompletion(Tail(inferences))
RECURSIVE SumTotal(_)
SumTotal(inferences) ==
    IF inferences = <<>> THEN 0
    ELSE Head(inferences).total_tokens + SumTotal(Tail(inferences))

\* C23: at every point of a token session, each of its three totals equals
\* the sum of the corresponding field over the session's inference records.
C23_TotalsAreSums ==
    \A t \in TkTasks :
        LET session == current_session(tk, t) IN
        session.active =>
            /\ session.total_prompt_tokens = SumPrompt(session.inferences)
            /\ session.total_completion_tokens = SumCompletion(session.inferences)
            /\ session.total_tokens = SumTotal(session.inferences)

\* a session holding two records of different token counts
C23_Witness ==
    \E t \in TkTasks :
        LET session == current_session(tk, t) IN
        /\ session.active
        /\ Len(session.inferences) = 2
        /\ session.total_prompt_tokens = 1
        /\ session.total_completion_tokens = 3
        /\ session.total_tokens = 4

\* a step taken by task t
ActsOnTokens(t) ==
    \/ TkStartSession(t)
    \/ TkFinalizeSession(t)
    \/ \E me \in {"ainvoke", "invoke"} : TkInvoke(t, me)
    \/ TkLlmRaises(t)
    \/ \E u \in TokenUsages : TkLlmReturns(t, u)

\* C24: token sessions are isolated per concurrent request: whatever one
\* request does (start, record through the wrapper, finalize) leaves the
\* session of every other request as it is, and the session a request sees
\* is the one it started.
C24_SessionsIsolated ==
    [][\A t \in TkTasks :
          ActsOnTokens(t) =>
              /\ \A u \in TkTasks \ {t} : current_session(tk', u) = current_session(tk, u)
              /\ current_session(tk', t).active => current_session(tk', t).query_id = t]_vars

\* two requests with their own sessions, one of which holds a record while
\* the other was started later and holds none
C24_Witness ==
    /\ current_session(tk, 1).active
    /\ current_session(tk, 2).active
    /\ current_session(tk, 1).query_id = 1
    /\ current_session(tk, 2).query_id = 2
    /\ Len(current_session(tk, 1).inferences) = 1
    /\ Len(current_session(tk, 2).inferences) = 0
    /\ tk.tasks[2].returned = "TokenSession"

\* C25: every LLM invocation made through the tracking wrapper while a
\* session is active appends exactly one InferenceRecord to that session.
\* Stated for invocations the base model answered, with tracking enabled.
C25_OneRecordPerInvocation ==
    [][\A t \in TkTasks :
          (/\ tk.tasks[t].pc = "llm"
           /\ tk'.tasks[t].pc = "idle"
           /\ tk'.tasks[t].last = "response"
           /\ tk.enabled
           /\ current_session(tk, t).active)
            => Len(current_session(tk', t).inferences)
                   = Len(current_session(tk, t).inferences) + 1]_vars

(***************************************************************************)
(* Claims about the guardian lookup                                        *)
(***************************************************************************)
\* C26: for every handle h, normalizing is a fixpoint,
\* normalize(normalize(h)) = normalize(h), and the guardian lookup answers
\* the same for h and for normalize(h).
C26_NormalizeFixpoint ==
    lu.pc = "done" =>
        /\ normalizar(normalizar(lu.whatsapp)) = normalizar(lu.whatsapp)
        /\ get_responsable_by_whatsapp(lu.responsables, lu.whatsapp)
             = get_responsable_by_whatsapp(lu.responsables, normalizar(lu.whatsapp))
        /\ lu.response = responsable_response(lu.responsables, normalizar(lu.whatsapp))

\* a handle written with a space and a hyphen found the stored guardian
C26_Witness ==
    /\ lu.pc = "done"
    /\ lu.whatsapp = <<"+", "-", "5">>
    /\ lu.response.status = 200
    /\ lu.response.body = <<(<<"+", "5">>)>>

(***************************************************************************)
(* Claims about replanning and routing in the hierarchical agent           *)
(***************************************************************************)
\* C27: after a replan in which the manager produces a new step list, the
\* run executes the new list from its first step: no step of the new plan
\* is skipped because of the cursor reached under the previous plan.
C27_ReplanStartsAtFirstStep ==
    [][(/\ ag.pc = "manager"
        /\ ag.replan_count > 0
        /\ ag'.pc = "ejecutar_especialista")
          => ag'.current_step_index = 0]_vars

\* C28 as stated: after the manager node, no plan leads to synthesize on the
\* error path; a greeting intent or an empty step list leads to synthesize
\* on the greeting path (welcome message) with no specialist executed;
\* anything else leads to execute_specialist.
C28_Original ==
    [][ag.pc = "manager" =>
          IF ~ag'.master_plan.present
          THEN /\ ag'.pc = "sintetizar"
               /\ \A llm \in SynthOutcomes : nodo_sintetizar(ag', llm) = "disculpa"
          ELSE IF ag'.master_plan.intent = SALUDO \/ ag'.master_plan.steps = <<>>
          THEN /\ ag'.pc = "sintetizar"
               /\ \A llm \in SynthOutcomes : nodo_sintetizar(ag', llm) = "saludo"
          ELSE ag'.pc = "ejecutar_especialista"]_vars

\* C28, amended: after the manager node, no plan leads to synthesize on the
\* error path (apology); a greeting intent leads to synthesize on the
\* greeting path (welcome message); an empty step list under another intent
\* leads to synthesize with no specialist executed, which answers with the
\* could-not-process message when there are no reports and never with the
\* welcome message; anything else leads to execute_specialist.
C28_RoutingAfterManager ==
    [][ag.pc = "manager" =>
          IF ~ag'.master_plan.present
          THEN /\ ag'.pc = "sintetizar"
               /\ \A llm \in SynthOutcomes : nodo_sintetizar(ag', llm) = "disculpa"
          ELSE IF ag'.master_plan.intent = SALUDO
          THEN /\ ag'.pc = "sintetizar"
               /\ \A llm \in SynthOutcomes : nodo_sintetizar(ag', llm) = "saludo"
          ELSE IF ag'.master_plan.steps = <<>>
          THEN /\ ag'.pc = "sintetizar"
               /\ \A llm \in SynthOutcomes :
                     /\ nodo_sintetizar(ag', llm) # "saludo"
                     /\ ag'.specialist_reports = <<>>
                           => nodo_sintetizar(ag', llm) = "sin_reportes"
          ELSE ag'.pc = "ejecutar_especialista"]_vars

\* the manager returned a plan without steps whose intent is no greeting, on
\* the first pass, and the run stands before synthesize
C28_Witness ==
    /\ ag.pc = "sintetizar"
    /\ ag.manager_calls = 1
    /\ ag.master_plan.present
    /\ ag.master_plan.intent # SALUDO
    /\ ag.master_plan.steps = <<>>
    /\ ag.specialist_reports = <<>>

\* C29: every execution of the execute_specialist node runs the step at the
\* cursor, appends exactly one report and advances the cursor by one.
C29_OneReportPerExecution ==
    [][ag.pc = "ejecutar_especialista" =>
          /\ ag'.current_step_index = ag.current_step_index + 1
          /\ Len(ag'.specialist_reports) = Len(ag.specialist_reports) + 1
          /\ ag.current_step_index < Len(ag.master_plan.steps)
          /\ ag'.specialist_reports[Len(ag'.specialist_reports)].specialist
                = ag.master_plan.steps[ag.current_step_index + 1]]_vars

(***************************************************************************)
(* Claims about the specialists                                            *)
(***************************************************************************)
\* C30: when a tool call inside a specialist fails because the upstream
\* service is unavailable, the specialist's report has success false and
\* requires_replan true.
C30_UpstreamFailureRequiresReplan ==
    (/\ sp.report.present
     /\ \E i \in DOMAIN sp.action_results :
            sp.action_results[i].upstream \in {"no_disponible", "cae_durante"})
        => /\ ~sp.report.success
           /\ sp.report.requires_replan

C34_RunTerminates ==
    <>(ag.pc = "END" /\ ag.returned \notin {None, ""})

\* a run that used every replan, and whose synthesis came back empty, ended
\* with the fallback text
C34_Witness ==
    /\ ag.pc = "END"
    /\ ag.replan_count = ag.max_replans
    /\ ag.manager_calls = 1 + ag.max_replans
    /\ ag.final_response = ""
    /\ ag.returned = "fallback_text"

(***************************************************************************)
(* Claims about the code planner's two loops                               *)
(***************************************************************************)
\* C32: after reflection the code planner loops back to plan if and only if
\* the result was judged invalid and planner_iterations < max_iterations
\* (5); in every other case it goes to respond.
C32_ReflectionLoop ==
    [][(cp.pc = "reflector" /\ ~cp'.raised) =>
          /\ cp'.pc \in {"planner", "responder"}
          /\ cp'.pc = "planner" <=>
                (/\ ~cp'.reflection_valid
                 /\ cp'.planner_iterations < MAX_PLANNER_ITERATIONS)]_vars

\* C33: the correction counter and the planner-iteration counter are
\* independent: an execution error advances only the correction counter,
\* the plan node entered after a reflection failure advances only the
\* planner-iteration counter, and neither loop's exit decision depends on
\* the other counter.
C33_IndependentCounters ==
    [][/\ (cp.pc = "executor" /\ cp'.execution_error) =>
              /\ cp'.correction_count = cp.correction_count + 1
              /\ cp'.planner_iterations = cp.planner_iterations
              /\ \A n \in 0..(MAX_PLANNER_ITERATIONS + 1) :
                    router_post_executor([cp' EXCEPT !.planner_iterations = n])
                        = router_post_executor(cp')
       /\ (cp.pc = "planner" /\ cp.reflections > 0 /\ cp.round_execs = 0) =>
              /\ cp'.planner_iterations = cp.planner_iterations + 1
              /\ cp'.correction_count = cp.correction_count
       /\ (cp.pc = "reflector" /\ ~cp'.raised) =>
              \A n \in 0..MAX_CORRECTIONS :
                    router_post_reflector([cp' EXCEPT !.correction_count = n])
                        = router_post_reflector(cp')]_vars

(***************************************************************************)
(* Claims about the orchestrator's mirror and the ERP's commit             *)
(***************************************************************************)
\* C35: once the orchestrator's mirror shows an installment as paid, no
\* later ERP webhook returns it to a non-paid state.
C35_PaidStaysPaid ==
    [][\A c \in CuotaIds : gw.cache[c] = PAGADA => gw'.cache[c] = PAGADA]_vars

\* the payment of the background task at position i is committed
PagoCommitted(i) ==
    NuevoPago(bgTasks[i].req, bgTasks[i].cuota_id) \in pagos

\* C36: the payment-confirmed webhook is sent only for a payment that has
\* been committed: no delivery attempt is made for a confirmation whose
\* transaction has not committed, fails to commit or is rolled back.
C36_DeliveryOnlyAfterCommit ==
    /\ (wh.task # NULL /\ wh.outcomes # <<>>) => PagoCommitted(wh.task)
    /\ \A i \in DOMAIN wh.log : wh.log[i].posts > 0 => PagoCommitted(wh.log[i].task)

(***************************************************************************)
(* Claims about the calls of confirm_payment                               *)
(***************************************************************************)
\* C37: the orchestrator side never re-sends a confirm_payment request on
\* its own: each call issues at most one HTTP request to the ERP, and a
\* failed call is reported to its caller (the exception, or a dict with
\* registered false) without any automatic retry.
C37_NoBlindRetry ==
    \A c \in Ops :
        /\ cf[c].posts <= 1
        /\ cf[c].posts = 1 => cf[c].pc = "done"
        /\ (cf[c].pc = "done" /\ cf[c].outcome \notin {None, "ok"}) =>
              /\ cf[c].posts = 1
              /\ cf[c].result = IF cf[c].via = "adapter" THEN "raised"
                                ELSE "not_registered"

\* a call through the adapter that met no connection, and a call through
\* the tool that was refused, each after one request
C37_Witness ==
    \E c, d \in Ops :
        /\ cf[c].via = "adapter" /\ cf[c].outcome = "ConnectError"
        /\ cf[c].posts = 1 /\ cf[c].result = "raised"
        /\ cf[d].via = "tool" /\ cf[d].outcome = "HTTPStatusError"
        /\ cf[d].posts = 1 /\ cf[d].result = "not_registered"

(***************************************************************************)
(* Claims about the tickets                                                *)
(***************************************************************************)
\* place of a state on the line pendiente -> en_proceso -> resuelto
EstadoRank(estado) ==
    IF estado = "pendiente" THEN 1
    ELSE IF estado = "en_proceso" THEN 2
    ELSE 3

\* C38: a ticket's state only moves forward along pendiente -> en_proceso
\* -> resuelto; no operation moves a ticket backwards or out of resuelto.
C38_TicketsMoveForward ==
    [][\A t \in TicketIds :
          ti.tickets[t] # NoTicket =>
              /\ ti'.tickets[t] # NoTicket
              /\ EstadoRank(ti'.tickets[t].estado) >= EstadoRank(ti.tickets[t].estado)]_vars

\* C39: whenever a ticket is in state resuelto, its resolved-at timestamp
\* and its admin reply are both set.
C39_ResolvedHasReply ==
    \A t \in TicketIds :
        ti.tickets[t].estado = "resuelto" =>
            /\ ti.tickets[t].resolved_at # None
            /\ ti.tickets[t].respuesta_admin # None

(***************************************************************************)
(* Claims about the keyword router                                         *)
(***************************************************************************)
\* C40: the keyword router gives escalation keywords priority: any message
\* containing an escalation keyword is routed to the agent even if it also
\* contains simple-query or greeting keywords, and a message that contains
\* no keyword at all is routed to the assistant.
C40_EscalationFirst ==
    rt.pc = "done" =>
        /\ contains_keywords(rt.message, KEYWORDS_ESCALAMIENTO) => rt.route = "agente"
        /\ ~contains_keywords(rt.message,
              KEYWORDS_ESCALAMIENTO \cup KEYWORDS_SIMPLE \cup KEYWORDS_SALUDO)
                => rt.route = "asistente"

\* a message with a simple-query keyword, an escalation keyword in capitals
\* and a greeting went to the agent
C40_Witness ==
    /\ rt.pc = "done"
    /\ rt.message = <<"saldo", "RECLAMOS", "Hola">>
    /\ rt.route = "agente"

====
